---- MODULE Spec2Model ----
(***************************************************************************)
(* A model of the dioxus-flow engine: FlowState (src/src/hooks.rs), the    *)
(* value types it stores (src/src/types.rs) and the Flow component's       *)
(* handlers that drive it (src/src/components/flow.rs).                    *)
(*                                                                         *)
(* Conventions.                                                            *)
(*  - Option<T> is a sequence: None is <<>>, Some(v) is <<v>>.             *)
(*  - Vec<T> is a sequence, String is a string, so format!() is \o.        *)
(*  - f64 coordinates are integers (every input is integral).              *)
(*  - Every FlowState method is an operator of the same name that takes    *)
(*    the state record s (the struct's fields) and returns the new state   *)
(*    record; a method with a return value returns [st, ret].              *)
(*  - Presentation-only fields that no method reads (data, node_type,      *)
(*    class, style, label, stroke, edge_type, animated) are left out.      *)
(*  - last is the call that produced the current state (with its return    *)
(*    value) and pre the state it was made in, so that a post-condition    *)
(*    is a predicate on one state.                                         *)
(***************************************************************************)
EXTENDS Integers, Sequences, FiniteSets, TLC

VARIABLES
    nodes,           \* FlowState.nodes: Vec<Node<T>>
    edges,           \* FlowState.edges: Vec<Edge>
    viewport,        \* FlowState.viewport: Viewport
    selected_nodes,  \* FlowState.selected_nodes: Vec<NodeId>
    selected_edges,  \* FlowState.selected_edges: Vec<EdgeId>
    connection,      \* FlowState.connection: Option<Connection>
    snap_grid,       \* FlowState.snap_grid: SnapGrid
    clipboard,       \* FlowState.clipboard: ClipboardData<T>
    undo_stack,      \* FlowState.undo_stack: Vec<FlowSnapshot<T>>
    redo_stack,      \* FlowState.redo_stack: Vec<FlowSnapshot<T>>
    max_z_index,     \* FlowState.max_z_index: i32
    uuids,           \* number of Uuid::new_v4() values drawn so far
    props,           \* the Flow component's props
    dragging_node,   \* Flow signal: Option<(NodeId, Position)>
    is_panning,      \* Flow signal: bool
    last_mouse_pos,  \* Flow signal: Option<Position>
    selection_box,   \* Flow signal: Option<(Position, Position)>
    shift_held,      \* Flow signal: bool
    last,            \* the call just made: [op, args, ret]
    pre,             \* [st, last, ui, prev]: the state that call was made in, and
                     \* the state the call before it was made in
    steps            \* number of calls the run may still make

stateVars == <<nodes, edges, viewport, selected_nodes, selected_edges, connection,
               snap_grid, clipboard, undo_stack, redo_stack, max_z_index, uuids>>
vars == <<nodes, edges, viewport, selected_nodes, selected_edges, connection,
          snap_grid, clipboard, undo_stack, redo_stack, max_z_index, uuids,
          props, dragging_node, is_panning, last_mouse_pos, selection_box,
          shift_held, last, pre, steps>>

(***************************************************************************)
(* Bounds of the model.                                                    *)
(***************************************************************************)
MaxSteps == 3
MaxHistorySteps == 4
MaxConnSteps == 3
MaxZSteps == 3
MaxDeleteSteps == 4
MaxPasteSteps == 4
MaxSelectSteps == 3
MaxMoveSteps == 3
MaxCameraSteps == 3
MaxGeometrySteps == 2
MaxLayerSteps == 3
MaxSelectionSteps == 3
MaxFlowSteps == 3
MaxHandleSteps == 4
DeepStart == 98

(***************************************************************************)
(* Program constants.                                                      *)
(***************************************************************************)
MAX_HISTORY_SIZE == 100
DEFAULT_NODE_WIDTH == 150
DEFAULT_NODE_HEIGHT == 40
\* Viewport::default().zoom
DefaultZoom == 1
\* SnapGrid::default().size
DefaultSnapSize == 15
\* i32::MAX and i32::MIN: z_index and max_z_index are i32
I32_MAX == 2147483647
I32_MIN == -2147483647 - 1

None == <<>>
Some(v) == <<v>>
IsSome(o) == o # <<>>
Unwrap(o) == o[1]

Range(seq) == {seq[i] : i \in 1..Len(seq)}
Contains(seq, x) == \E i \in 1..Len(seq) : seq[i] = x
Front(seq) == SubSeq(seq, 1, Len(seq) - 1)
Last(seq) == seq[Len(seq)]

(***************************************************************************)
(* types.rs: Position, Viewport, NodeHandle, Node, Edge, Connection.       *)
(***************************************************************************)
Position(x, y) == [x |-> x, y |-> y]

(***************************************************************************)
(* The camera's f64 values are exact fractions n / d in lowest terms with  *)
(* d > 0, so that the zoom arithmetic is computed without rounding.        *)
(***************************************************************************)
Abs(i) == IF i < 0 THEN -i ELSE i

RECURSIVE GCD(_, _)
GCD(a, b) == IF b = 0 THEN a ELSE GCD(b, a % b)

\* the fraction n / d, d # 0
Rat(n, d) ==
    LET g == GCD(Abs(n), Abs(d))
    IN IF d > 0 THEN [n |-> n \div g, d |-> d \div g]
       ELSE [n |-> (-n) \div g, d |-> (-d) \div g]

RatInt(i) == [n |-> i, d |-> 1]
\* sums over the least common denominator, products after cancelling across,
\* which keeps the intermediate integers small
RatAdd(a, b) ==
    LET g == GCD(a.d, b.d)
    IN Rat(a.n * (b.d \div g) + b.n * (a.d \div g), (a.d \div g) * b.d)
RatSub(a, b) == RatAdd(a, [n |-> -b.n, d |-> b.d])
RatMul(a, b) ==
    LET x == Rat(a.n, b.d)
        y == Rat(b.n, a.d)
    IN [n |-> x.n * y.n, d |-> x.d * y.d]
\* a / b, b # 0
RatDiv(a, b) == RatMul(a, Rat(b.d, b.n))
RatLess(a, b) == a.n * b.d < b.n * a.d
\* f64::min, f64::max, f64::clamp (min <= max)
RatMin(a, b) == IF RatLess(b, a) THEN b ELSE a
RatMax(a, b) == IF RatLess(a, b) THEN b ELSE a
RatClamp(v, min, max) == IF RatLess(v, min) THEN min ELSE IF RatLess(max, v) THEN max ELSE v

\* Viewport::new(x, y, zoom)
ViewportNew(x, y, zoom) == [x |-> x, y |-> y, zoom |-> zoom]

ViewportDefault == ViewportNew(RatInt(0), RatInt(0), RatInt(DefaultZoom))

\* a screen_to_flow that divides by the zoom before it takes the offset off
screen_to_flow_scales_first(vp, screen_x, screen_y) ==
    Position(RatSub(RatDiv(screen_x, vp.zoom), vp.x),
             RatSub(RatDiv(screen_y, vp.zoom), vp.y))

\* Viewport::screen_to_flow
screen_to_flow(vp, screen_x, screen_y) ==
    Position(RatDiv(RatSub(screen_x, vp.x), vp.zoom),
             RatDiv(RatSub(screen_y, vp.y), vp.zoom))

\* Viewport::flow_to_screen
flow_to_screen(vp, flow_x, flow_y) ==
    Position(RatAdd(RatMul(flow_x, vp.zoom), vp.x),
             RatAdd(RatMul(flow_y, vp.zoom), vp.y))

SnapGridDefault == [enabled |-> FALSE, size |-> DefaultSnapSize]

ClipboardDefault == [nodes |-> <<>>, edges |-> <<>>]

HandlePositions == {"Top", "Right", "Bottom", "Left"}

\* NodeHandle::source(id): an output handle on the right side.
HandleSource(id) ==
    [id |-> id, kind |-> "Source", position |-> "Right", offset |-> None,
     connectable |-> TRUE, max_connections |-> None]

\* NodeHandle::target(id): an input handle on the left side.
HandleTarget(id) ==
    [id |-> id, kind |-> "Target", position |-> "Left", offset |-> None,
     connectable |-> TRUE, max_connections |-> None]

handle_with_position(h, p) == [h EXCEPT !.position = p]

\* Node::new(id, x, y)
NodeNew(id, x, y) ==
    [id |-> id, position |-> Position(x, y), width |-> None, height |-> None,
     selected |-> FALSE, selectable |-> TRUE, draggable |-> TRUE,
     deletable |-> TRUE, connectable |-> TRUE,
     handles |-> << handle_with_position(HandleTarget("target"), "Top"),
                    handle_with_position(HandleSource("source"), "Bottom") >>,
     z_index |-> 0, extent |-> None]

\* Node::new_without_handles(id, x, y)
NodeNewWithoutHandles(id, x, y) ==
    [NodeNew(id, x, y) EXCEPT !.connectable = FALSE, !.handles = <<>>]

with_draggable(n, b) == [n EXCEPT !.draggable = b]
with_connectable(n, b) == [n EXCEPT !.connectable = b]
with_selectable(n, b) == [n EXCEPT !.selectable = b]
with_deletable(n, b) == [n EXCEPT !.deletable = b]
with_z_index(n, z) == [n EXCEPT !.z_index = z]
with_handles(n, hs) == [n EXCEPT !.handles = hs, !.connectable = (hs # <<>>)]

\* NodeExtent::new(min_x, min_y, max_x, max_y)
NodeExtentNew(min_x, min_y, max_x, max_y) ==
    [min_x |-> min_x, min_y |-> min_y, max_x |-> max_x, max_y |-> max_y]

with_extent(n, extent) == [n EXCEPT !.extent = Some(extent)]
with_dimensions(n, width, height) == [n EXCEPT !.width = Some(width), !.height = Some(height)]

\* SnapGrid::new(size)
SnapGridNew(size) == [enabled |-> TRUE, size |-> size]

\* f64::round of v / size, halves away from zero (v an integer, size > 0)
RoundDiv(v, size) ==
    IF v >= 0 THEN (2 * v + size) \div (2 * size)
    ELSE -((2 * (-v) + size) \div (2 * size))

\* a snap that rounds the x coordinate only
snap_x_only(grid, position) ==
    IF ~grid.enabled THEN position
    ELSE Position(RoundDiv(position.x, grid.size) * grid.size, position.y)

\* SnapGrid::snap
snap(grid, position) ==
    IF ~grid.enabled THEN position
    ELSE Position(RoundDiv(position.x, grid.size) * grid.size,
                  RoundDiv(position.y, grid.size) * grid.size)

\* f64::clamp, for min <= max
f64_clamp(v, min, max) == IF v < min THEN min ELSE IF v > max THEN max ELSE v

\* f64::clamp asserts min <= max: NodeExtent::clamp panics on an extent that
\* is narrower or shorter than the node
clamp_panics(extent, node_width, node_height) ==
    \/ extent.min_x > extent.max_x - node_width
    \/ extent.min_y > extent.max_y - node_height

\* NodeExtent::clamp
clamp(extent, position, node_width, node_height) ==
    Position(f64_clamp(position.x, extent.min_x, extent.max_x - node_width),
             f64_clamp(position.y, extent.min_y, extent.max_y - node_height))

\* Edge::new(id, source, target)
EdgeNew(id, source, target) ==
    [id |-> id, source |-> source, target |-> target,
     source_handle |-> "Bottom", target_handle |-> "Top",
     source_handle_id |-> None, target_handle_id |-> None,
     selected |-> FALSE, selectable |-> TRUE, deletable |-> TRUE]

\* Edge::new_with_handles(id, source, source_handle, target, target_handle)
EdgeNewWithHandles(id, source, sh, target, th) ==
    [id |-> id, source |-> source, target |-> target,
     source_handle |-> "Right", target_handle |-> "Left",
     source_handle_id |-> Some(sh), target_handle_id |-> Some(th),
     selected |-> FALSE, selectable |-> TRUE, deletable |-> TRUE]

with_source_handle(e, p) == [e EXCEPT !.source_handle = p]
with_target_handle(e, p) == [e EXCEPT !.target_handle = p]
with_source_handle_id(e, h) == [e EXCEPT !.source_handle_id = Some(h)]
with_target_handle_id(e, h) == [e EXCEPT !.target_handle_id = Some(h)]
edge_with_selectable(e, b) == [e EXCEPT !.selectable = b]
edge_with_deletable(e, b) == [e EXCEPT !.deletable = b]

(***************************************************************************)
(* hooks.rs: FlowState.                                                    *)
(***************************************************************************)
\* The struct's fields, as one record.
State ==
    [nodes |-> nodes, edges |-> edges, viewport |-> viewport,
     selected_nodes |-> selected_nodes, selected_edges |-> selected_edges,
     connection |-> connection, snap_grid |-> snap_grid, clipboard |-> clipboard,
     undo_stack |-> undo_stack, redo_stack |-> redo_stack,
     max_z_index |-> max_z_index, uuids |-> uuids]

\* max of a sequence of z-indices, 0 when empty (Iterator::max + unwrap_or(0))
RECURSIVE MaxZ(_)
MaxZ(ns) ==
    IF ns = <<>> THEN 0
    ELSE IF Len(ns) = 1 THEN ns[1].z_index
    ELSE LET m == MaxZ(Tail(ns)) IN IF ns[1].z_index > m THEN ns[1].z_index ELSE m

\* FlowState::new()
FlowStateNew ==
    [nodes |-> <<>>, edges |-> <<>>, viewport |-> ViewportDefault,
     selected_nodes |-> <<>>, selected_edges |-> <<>>, connection |-> None,
     snap_grid |-> SnapGridDefault, clipboard |-> ClipboardDefault,
     undo_stack |-> <<>>, redo_stack |-> <<>>, max_z_index |-> 0, uuids |-> 0]

\* FlowState::with_nodes_and_edges(nodes, edges)
with_nodes_and_edges(ns, es) ==
    [FlowStateNew EXCEPT !.nodes = ns, !.edges = es, !.max_z_index = MaxZ(ns)]

\* FlowSnapshot { nodes: self.nodes.clone(), edges: self.edges.clone() }
FlowSnapshot(s) == [nodes |-> s.nodes, edges |-> s.edges]

\* FlowState::clear_selection
clear_selection(s) ==
    [s EXCEPT !.nodes = [i \in 1..Len(s.nodes) |-> [s.nodes[i] EXCEPT !.selected = FALSE]],
              !.edges = [i \in 1..Len(s.edges) |-> [s.edges[i] EXCEPT !.selected = FALSE]],
              !.selected_nodes = <<>>,
              !.selected_edges = <<>>]

\* save_to_history that drops the newest snapshot, not the oldest, when full
save_to_history_drops_newest(s) ==
    LET pushed == Append(s.undo_stack, FlowSnapshot(s))
    IN [s EXCEPT !.undo_stack = IF Len(pushed) > MAX_HISTORY_SIZE THEN Front(pushed) ELSE pushed,
                 !.redo_stack = <<>>]

\* save_to_history that leaves the redo stack alone
save_to_history_keeps_redo(s) ==
    LET pushed == Append(s.undo_stack, FlowSnapshot(s))
    IN [s EXCEPT !.undo_stack = IF Len(pushed) > MAX_HISTORY_SIZE THEN Tail(pushed) ELSE pushed]

\* FlowState::save_to_history
save_to_history(s) ==
    LET pushed == Append(s.undo_stack, FlowSnapshot(s))
    IN [s EXCEPT !.undo_stack = IF Len(pushed) > MAX_HISTORY_SIZE THEN Tail(pushed) ELSE pushed,
                 !.redo_stack = <<>>]

\* undo that restores the snapshot without clearing the selection
undo_keeps_selection(s) ==
    IF s.undo_stack # <<>>
    THEN LET snapshot == Last(s.undo_stack)
         IN [st |-> [s EXCEPT !.undo_stack = Front(s.undo_stack),
                              !.redo_stack = Append(s.redo_stack, FlowSnapshot(s)),
                              !.nodes = snapshot.nodes,
                              !.edges = snapshot.edges],
             ret |-> TRUE]
    ELSE [st |-> s, ret |-> FALSE]

\* undo that clears the selection before it looks at the stack
undo_clears_first(s) ==
    IF s.undo_stack # <<>>
    THEN LET snapshot == Last(s.undo_stack)
             popped == [s EXCEPT !.undo_stack = Front(s.undo_stack),
                                 !.redo_stack = Append(s.redo_stack, FlowSnapshot(s)),
                                 !.nodes = snapshot.nodes,
                                 !.edges = snapshot.edges]
         IN [st |-> clear_selection(popped), ret |-> TRUE]
    ELSE [st |-> clear_selection(s), ret |-> FALSE]

\* FlowState::undo
undo(s) ==
    IF s.undo_stack # <<>>
    THEN LET snapshot == Last(s.undo_stack)
             popped == [s EXCEPT !.undo_stack = Front(s.undo_stack),
                                 !.redo_stack = Append(s.redo_stack, FlowSnapshot(s)),
                                 !.nodes = snapshot.nodes,
                                 !.edges = snapshot.edges]
         IN [st |-> clear_selection(popped), ret |-> TRUE]
    ELSE [st |-> s, ret |-> FALSE]

\* redo that does not push the current state back onto the undo stack
redo_forgets_current(s) ==
    IF s.redo_stack # <<>>
    THEN LET snapshot == Last(s.redo_stack)
             popped == [s EXCEPT !.redo_stack = Front(s.redo_stack),
                                 !.nodes = snapshot.nodes,
                                 !.edges = snapshot.edges]
         IN [st |-> clear_selection(popped), ret |-> TRUE]
    ELSE [st |-> s, ret |-> FALSE]

\* FlowState::redo
redo(s) ==
    IF s.redo_stack # <<>>
    THEN LET snapshot == Last(s.redo_stack)
             popped == [s EXCEPT !.redo_stack = Front(s.redo_stack),
                                 !.undo_stack = Append(s.undo_stack, FlowSnapshot(s)),
                                 !.nodes = snapshot.nodes,
                                 !.edges = snapshot.edges]
         IN [st |-> clear_selection(popped), ret |-> TRUE]
    ELSE [st |-> s, ret |-> FALSE]

\* FlowState::can_undo / can_redo
can_undo(s) == s.undo_stack # <<>>
can_redo(s) == s.redo_stack # <<>>

\* FlowState::get_node: the first node with the id, if any
get_node(s, id) ==
    LET hits == SelectSeq(s.nodes, LAMBDA n : n.id = id)
    IN IF hits = <<>> THEN None ELSE Some(hits[1])

\* FlowState::get_edge: the first edge with the id, if any
get_edge(s, id) ==
    LET hits == SelectSeq(s.edges, LAMBDA e : e.id = id)
    IN IF hits = <<>> THEN None ELSE Some(hits[1])

\* index of the first node with the id, 0 if none (what get_node_mut finds)
NodeIndex(s, id) ==
    IF \E i \in 1..Len(s.nodes) : s.nodes[i].id = id
    THEN CHOOSE i \in 1..Len(s.nodes) :
            /\ s.nodes[i].id = id
            /\ \A j \in 1..(i - 1) : s.nodes[j].id # id
    ELSE 0

\* x += 1 on an i32 in a build without overflow checks
wrapping_inc(x) == IF x = I32_MAX THEN I32_MIN ELSE x + 1

\* self.max_z_index += 1 in add_node overflows: a build with overflow checks
\* panics there, before the node is pushed
add_node_overflows(s, node) == node.z_index = 0 /\ s.max_z_index = I32_MAX

\* FlowState::add_node
add_node(s, node) ==
    IF node.z_index = 0
    THEN [s EXCEPT !.max_z_index = wrapping_inc(s.max_z_index),
                   !.nodes = Append(s.nodes,
                                    [node EXCEPT !.z_index = wrapping_inc(s.max_z_index)])]
    ELSE [s EXCEPT !.max_z_index = IF node.z_index > s.max_z_index
                                   THEN node.z_index ELSE s.max_z_index,
                   !.nodes = Append(s.nodes, node)]

\* remove_node that forgets the edges arriving at the node
remove_node_keeps_incoming(s, id) ==
    [s EXCEPT !.nodes = SelectSeq(s.nodes, LAMBDA n : n.id # id),
              !.edges = SelectSeq(s.edges, LAMBDA e : e.source # id),
              !.selected_nodes = SelectSeq(s.selected_nodes, LAMBDA n : n # id)]

\* FlowState::remove_node
remove_node(s, id) ==
    [s EXCEPT !.nodes = SelectSeq(s.nodes, LAMBDA n : n.id # id),
              !.edges = SelectSeq(s.edges, LAMBDA e : e.source # id /\ e.target # id),
              !.selected_nodes = SelectSeq(s.selected_nodes, LAMBDA n : n # id)]

\* FlowState::add_edge
add_edge(s, edge) ==
    LET exists == \E i \in 1..Len(s.edges) :
                      /\ s.edges[i].source = edge.source
                      /\ s.edges[i].target = edge.target
                      /\ s.edges[i].source_handle = edge.source_handle
                      /\ s.edges[i].target_handle = edge.target_handle
    IN IF ~exists THEN [s EXCEPT !.edges = Append(s.edges, edge)] ELSE s

\* FlowState::remove_edge
remove_edge(s, id) ==
    [s EXCEPT !.edges = SelectSeq(s.edges, LAMBDA e : e.id # id),
              !.selected_edges = SelectSeq(s.selected_edges, LAMBDA e : e # id)]

\* deleted_nodes.iter().fold: remove_node for each id in turn
RECURSIVE RemoveNodes(_, _)
RemoveNodes(s, ids) ==
    IF ids = <<>> THEN s ELSE RemoveNodes(remove_node(s, ids[1]), Tail(ids))

\* remove_edge for each id in turn
RECURSIVE RemoveEdges(_, _)
RemoveEdges(s, ids) ==
    IF ids = <<>> THEN s ELSE RemoveEdges(remove_edge(s, ids[1]), Tail(ids))

\* e.id for each edge of a sequence (iter().map(|e| e.id.clone()).collect())
EdgeIdsOf(es) == [i \in 1..Len(es) |-> es[i].id]

\* delete_selected that does not look at the deletable flags
delete_selected_ignores_deletable(s) ==
    LET deleted_nodes ==
            SelectSeq(s.selected_nodes, LAMBDA id : IsSome(get_node(s, id)))
        deleted_edges ==
            SelectSeq(s.selected_edges, LAMBDA id : IsSome(get_edge(s, id)))
        edges_to_delete ==
            EdgeIdsOf(SelectSeq(s.edges,
                      LAMBDA e : Contains(deleted_nodes, e.source)
                                 \/ Contains(deleted_nodes, e.target)))
        s1 == RemoveNodes(s, deleted_nodes)
        s2 == RemoveEdges(s1, deleted_edges)
        s3 == RemoveEdges(s2, edges_to_delete)
    IN [st |-> clear_selection(s3),
        ret |-> [nodes |-> deleted_nodes,
                 edges |-> Range(deleted_edges \o edges_to_delete)]]

\* FlowState::delete_selected.  The returned edge ids are sorted and deduplicated
\* in the code: a sorted duplicate-free Vec is given as the set of its elements.
delete_selected(s) ==
    LET deleted_nodes ==
            SelectSeq(s.selected_nodes,
                      LAMBDA id : IF IsSome(get_node(s, id))
                                  THEN Unwrap(get_node(s, id)).deletable ELSE FALSE)
        deleted_edges ==
            SelectSeq(s.selected_edges,
                      LAMBDA id : IF IsSome(get_edge(s, id))
                                  THEN Unwrap(get_edge(s, id)).deletable ELSE FALSE)
        edges_to_delete ==
            EdgeIdsOf(SelectSeq(s.edges,
                      LAMBDA e : Contains(deleted_nodes, e.source)
                                 \/ Contains(deleted_nodes, e.target)))
        s1 == RemoveNodes(s, deleted_nodes)
        s2 == RemoveEdges(s1, deleted_edges)
        s3 == RemoveEdges(s2, edges_to_delete)
    IN [st |-> clear_selection(s3),
        ret |-> [nodes |-> deleted_nodes,
                 edges |-> Range(deleted_edges \o edges_to_delete)]]

\* FlowState::bring_to_front
bring_to_front(s, id) ==
    LET new_z == wrapping_inc(s.max_z_index)
        i == NodeIndex(s, id)
    IN [s EXCEPT !.max_z_index = new_z,
                 !.nodes = IF i = 0 THEN s.nodes
                           ELSE [s.nodes EXCEPT ![i] = [s.nodes[i] EXCEPT !.z_index = new_z]]]

\* FlowState::send_to_back
send_to_back(s, id) ==
    LET bumped == [i \in 1..Len(s.nodes) |->
                      IF s.nodes[i].id # id /\ s.nodes[i].z_index > 0
                      THEN [s.nodes[i] EXCEPT !.z_index = wrapping_inc(s.nodes[i].z_index)]
                      ELSE s.nodes[i]]
        i == NodeIndex(s, id)
    IN [s EXCEPT !.nodes = IF i = 0 THEN bumped
                           ELSE [bumped EXCEPT ![i] = [bumped[i] EXCEPT !.z_index = 0]]]

\* sort_by_key(|n| n.z_index): a stable sort, so n goes behind every node already
\* placed whose z_index is not greater
InsertByZ(sorted, n) ==
    LET k == Cardinality({j \in 1..Len(sorted) : sorted[j].z_index <= n.z_index})
    IN SubSeq(sorted, 1, k) \o <<n>> \o SubSeq(sorted, k + 1, Len(sorted))

RECURSIVE SortByZ(_)
SortByZ(ns) ==
    IF ns = <<>> THEN <<>>
    ELSE InsertByZ(SortByZ(Front(ns)), Last(ns))

\* FlowState::nodes_sorted_by_z_index
nodes_sorted_by_z_index(s) == SortByZ(s.nodes)

\* select_node that clears the selection before it looks at the selectable flag
select_node_clears_first(s, id, multi_select) ==
    LET s1 == IF ~multi_select THEN clear_selection(s) ELSE s
    IN IF IsSome(get_node(s, id)) /\ ~Unwrap(get_node(s, id)).selectable
       THEN s1
       ELSE LET s2 == IF ~Contains(s1.selected_nodes, id)
                      THEN [s1 EXCEPT !.selected_nodes = Append(s1.selected_nodes, id)]
                      ELSE s1
                i == NodeIndex(s2, id)
            IN IF i = 0 THEN s2
               ELSE [s2 EXCEPT !.nodes = [s2.nodes EXCEPT ![i] =
                                             [s2.nodes[i] EXCEPT !.selected = TRUE]]]

\* FlowState::select_node
select_node(s, id, multi_select) ==
    IF IsSome(get_node(s, id)) /\ ~Unwrap(get_node(s, id)).selectable
    THEN s
    ELSE LET s1 == IF ~multi_select THEN clear_selection(s) ELSE s
             s2 == IF ~Contains(s1.selected_nodes, id)
                   THEN [s1 EXCEPT !.selected_nodes = Append(s1.selected_nodes, id)]
                   ELSE s1
             i == NodeIndex(s2, id)
         IN IF i = 0 THEN s2
            ELSE [s2 EXCEPT !.nodes = [s2.nodes EXCEPT ![i] =
                                          [s2.nodes[i] EXCEPT !.selected = TRUE]]]

\* index of the first edge with the id, 0 if none
EdgeIndex(s, id) ==
    IF \E i \in 1..Len(s.edges) : s.edges[i].id = id
    THEN CHOOSE i \in 1..Len(s.edges) :
            /\ s.edges[i].id = id
            /\ \A j \in 1..(i - 1) : s.edges[j].id # id
    ELSE 0

\* FlowState::select_edge
select_edge(s, id, multi_select) ==
    IF IsSome(get_edge(s, id)) /\ ~Unwrap(get_edge(s, id)).selectable
    THEN s
    ELSE LET s1 == IF ~multi_select THEN clear_selection(s) ELSE s
             s2 == IF ~Contains(s1.selected_edges, id)
                   THEN [s1 EXCEPT !.selected_edges = Append(s1.selected_edges, id)]
                   ELSE s1
             i == EdgeIndex(s2, id)
         IN IF i = 0 THEN s2
            ELSE [s2 EXCEPT !.edges = [s2.edges EXCEPT ![i] =
                                          [s2.edges[i] EXCEPT !.selected = TRUE]]]

\* FlowState::select_nodes, the loop over ids: a stored, selectable node is
\* listed; a stored node is flagged, selectable or not
RECURSIVE SelectEach(_, _)
SelectEach(s, ids) ==
    IF ids = <<>> THEN s
    ELSE LET id == ids[1]
             node == get_node(s, id)
             s1 == IF IsSome(node) /\ Unwrap(node).selectable
                      /\ ~Contains(s.selected_nodes, id)
                   THEN [s EXCEPT !.selected_nodes = Append(s.selected_nodes, id)]
                   ELSE s
             i == NodeIndex(s1, id)
             s2 == IF i = 0 THEN s1
                   ELSE [s1 EXCEPT !.nodes = [s1.nodes EXCEPT ![i] =
                                                 [s1.nodes[i] EXCEPT !.selected = TRUE]]]
         IN SelectEach(s2, Tail(ids))

\* FlowState::select_nodes
select_nodes(s, ids, multi_select) ==
    SelectEach(IF ~multi_select THEN clear_selection(s) ELSE s, ids)

\* select_all, the loop over the nodes from index i on
RECURSIVE SelectAllNodes(_, _)
SelectAllNodes(s, i) ==
    IF i > Len(s.nodes) THEN s
    ELSE IF s.nodes[i].selectable
    THEN SelectAllNodes(
             [s EXCEPT !.nodes = [s.nodes EXCEPT ![i] = [s.nodes[i] EXCEPT !.selected = TRUE]],
                       !.selected_nodes = IF ~Contains(s.selected_nodes, s.nodes[i].id)
                                          THEN Append(s.selected_nodes, s.nodes[i].id)
                                          ELSE s.selected_nodes],
             i + 1)
    ELSE SelectAllNodes(s, i + 1)

\* select_all, the loop over the edges from index i on
RECURSIVE SelectAllEdges(_, _)
SelectAllEdges(s, i) ==
    IF i > Len(s.edges) THEN s
    ELSE IF s.edges[i].selectable
    THEN SelectAllEdges(
             [s EXCEPT !.edges = [s.edges EXCEPT ![i] = [s.edges[i] EXCEPT !.selected = TRUE]],
                       !.selected_edges = IF ~Contains(s.selected_edges, s.edges[i].id)
                                          THEN Append(s.selected_edges, s.edges[i].id)
                                          ELSE s.selected_edges],
             i + 1)
    ELSE SelectAllEdges(s, i + 1)

\* FlowState::select_all
select_all(s) == SelectAllEdges(SelectAllNodes(s, 1), 1)

\* SelectionRect { x, y, width, height }
SelectionRect(x, y, width, height) == [x |-> x, y |-> y, width |-> width, height |-> height]

\* an intersection test that does not count boxes that only touch
intersects_strict(rect, other) ==
    ~ \/ other.x >= rect.x + rect.width
      \/ other.x + other.width <= rect.x
      \/ other.y >= rect.y + rect.height
      \/ other.y + other.height <= rect.y

\* SelectionRect::intersects
intersects(rect, other) ==
    ~ \/ other.x > rect.x + rect.width
      \/ other.x + other.width < rect.x
      \/ other.y > rect.y + rect.height
      \/ other.y + other.height < rect.y

\* SelectionRect::intersects_node
intersects_node(rect, node) ==
    intersects(rect,
               SelectionRect(node.position.x, node.position.y,
                             IF IsSome(node.width) THEN Unwrap(node.width) ELSE DEFAULT_NODE_WIDTH,
                             IF IsSome(node.height) THEN Unwrap(node.height) ELSE DEFAULT_NODE_HEIGHT))

\* select_in_rect, the loop over node_ids: list the id and flag its first node
RECURSIVE SelectIds(_, _)
SelectIds(s, ids) ==
    IF ids = <<>> THEN s
    ELSE LET id == ids[1]
             s1 == IF ~Contains(s.selected_nodes, id)
                   THEN [s EXCEPT !.selected_nodes = Append(s.selected_nodes, id)]
                   ELSE s
             i == NodeIndex(s1, id)
             s2 == IF i = 0 THEN s1
                   ELSE [s1 EXCEPT !.nodes = [s1.nodes EXCEPT ![i] =
                                                 [s1.nodes[i] EXCEPT !.selected = TRUE]]]
         IN SelectIds(s2, Tail(ids))

\* FlowState::select_in_rect
select_in_rect(s, rect, multi_select) ==
    LET s1 == IF ~multi_select THEN clear_selection(s) ELSE s
        hits == SelectSeq(s1.nodes, LAMBDA n : n.selectable /\ intersects_node(rect, n))
    IN SelectIds(s1, [i \in 1..Len(hits) |-> hits[i].id])

\* what a call that panicked returns
Panic == Some("panic")

\* node.width.unwrap_or(150.0), node.height.unwrap_or(40.0)
WidthOf(node) == IF IsSome(node.width) THEN Unwrap(node.width) ELSE DEFAULT_NODE_WIDTH
HeightOf(node) == IF IsSome(node.height) THEN Unwrap(node.height) ELSE DEFAULT_NODE_HEIGHT

\* update_node_position that clamps to the extent first and snaps afterwards
update_node_position_snaps_last(s, id, position) ==
    LET i == NodeIndex(s, id)
    IN IF i = 0 THEN [st |-> s, ret |-> None]
       ELSE LET node == s.nodes[i]
            IN IF IsSome(node.extent)
                  /\ clamp_panics(Unwrap(node.extent), WidthOf(node), HeightOf(node))
               THEN [st |-> s, ret |-> Panic]
               ELSE LET clamped == IF IsSome(node.extent)
                                   THEN clamp(Unwrap(node.extent), position,
                                              WidthOf(node), HeightOf(node))
                                   ELSE position
                    IN [st |-> [s EXCEPT !.nodes[i].position = snap(s.snap_grid, clamped)],
                        ret |-> None]

\* FlowState::update_node_position; the call panics inside NodeExtent::clamp
\* before it has written anything
update_node_position(s, id, position) ==
    LET snap_enabled == s.snap_grid.enabled
        snapped_pos == snap(s.snap_grid, position)
        i == NodeIndex(s, id)
    IN IF i = 0 THEN [st |-> s, ret |-> None]
       ELSE LET node == s.nodes[i]
                new_pos == IF snap_enabled THEN snapped_pos ELSE position
            IN IF IsSome(node.extent)
               THEN IF clamp_panics(Unwrap(node.extent), WidthOf(node), HeightOf(node))
                    THEN [st |-> s, ret |-> Panic]
                    ELSE [st |-> [s EXCEPT !.nodes[i].position =
                                     clamp(Unwrap(node.extent), new_pos,
                                           WidthOf(node), HeightOf(node))],
                          ret |-> None]
               ELSE [st |-> [s EXCEPT !.nodes[i].position = new_pos], ret |-> None]

\* move_selected_nodes, the loop over the selected ids; fixed tells whether a
\* node that is not draggable stays where it is (it does); a panic leaves the
\* nodes moved so far moved
RECURSIVE MoveIds(_, _, _, _, _)
MoveIds(s, ids, dx, dy, fixed) ==
    IF ids = <<>> THEN [st |-> s, ret |-> None]
    ELSE LET i == NodeIndex(s, ids[1])
         IN IF i = 0 \/ (fixed /\ ~s.nodes[i].draggable)
            THEN MoveIds(s, Tail(ids), dx, dy, fixed)
            ELSE LET node == s.nodes[i]
                     new_pos == Position(node.position.x + dx, node.position.y + dy)
                     final_pos == IF s.snap_grid.enabled THEN snap(s.snap_grid, new_pos)
                                  ELSE new_pos
                 IN IF IsSome(node.extent)
                    THEN IF clamp_panics(Unwrap(node.extent), WidthOf(node), HeightOf(node))
                         THEN [st |-> s, ret |-> Panic]
                         ELSE MoveIds([s EXCEPT !.nodes[i].position =
                                          clamp(Unwrap(node.extent), final_pos,
                                                WidthOf(node), HeightOf(node))],
                                      Tail(ids), dx, dy, fixed)
                    ELSE MoveIds([s EXCEPT !.nodes[i].position = final_pos],
                                 Tail(ids), dx, dy, fixed)

\* move_selected_nodes that moves the nodes that are not draggable as well
move_selected_nodes_ignores_draggable(s, dx, dy) ==
    MoveIds(s, s.selected_nodes, dx, dy, FALSE)

\* FlowState::move_selected_nodes
move_selected_nodes(s, dx, dy) ==
    MoveIds(s, s.selected_nodes, dx, dy, TRUE)

\* FlowState::copy_selected
copy_selected(s) ==
    [s EXCEPT !.clipboard =
        [nodes |-> SelectSeq(s.nodes, LAMBDA n : Contains(s.selected_nodes, n.id)),
         edges |-> SelectSeq(s.edges, LAMBDA e : Contains(s.selected_nodes, e.source)
                                                /\ Contains(s.selected_nodes, e.target))]]

\* uuid::Uuid::new_v4() as text: the k-th value drawn is "u<k>", so that no two
\* draws agree.
Uuid(k) == "u" \o ToString(k)

\* format!("{}-copy-{}", id, uuid::Uuid::new_v4())
CopyId(id, k) == id \o "-copy-" \o Uuid(k)

\* paste, first loop: one pasted node for each clipboard node, in order
RECURSIVE PasteNodes(_, _, _)
PasteNodes(s, cnodes, offset) ==
    IF cnodes = <<>> THEN [st |-> s, id_map |-> <<>>, new_node_ids |-> <<>>]
    ELSE LET node == cnodes[1]
             new_id == CopyId(node.id, s.uuids + 1)
             new_node == [node EXCEPT !.id = new_id,
                                      !.position = Position(node.position.x + offset.x,
                                                            node.position.y + offset.y),
                                      !.selected = TRUE]
             s1 == add_node([s EXCEPT !.uuids = s.uuids + 1], new_node)
             s2 == [s1 EXCEPT !.selected_nodes = Append(s1.selected_nodes, new_id)]
             rest == PasteNodes(s2, Tail(cnodes), offset)
         IN [st |-> rest.st,
             id_map |-> <<[old |-> node.id, new |-> new_id]>> \o rest.id_map,
             new_node_ids |-> <<new_id>> \o rest.new_node_ids]

\* HashMap::get on id_map: a later insert of the same key replaced the earlier one
MapGet(id_map, key) ==
    LET hits == SelectSeq(id_map, LAMBDA kv : kv.old = key)
    IN IF hits = <<>> THEN None ELSE Some(Last(hits).new)

\* paste, second loop: one pasted edge for each clipboard edge with both ends mapped
RECURSIVE PasteEdges(_, _, _)
PasteEdges(s, cedges, id_map) ==
    IF cedges = <<>> THEN s
    ELSE LET edge == cedges[1]
             new_source == MapGet(id_map, edge.source)
             new_target == MapGet(id_map, edge.target)
         IN IF IsSome(new_source) /\ IsSome(new_target)
            THEN LET new_edge == [edge EXCEPT !.id = CopyId(edge.id, s.uuids + 1),
                                              !.source = Unwrap(new_source),
                                              !.target = Unwrap(new_target)]
                 IN PasteEdges(add_edge([s EXCEPT !.uuids = s.uuids + 1], new_edge),
                               Tail(cedges), id_map)
            ELSE PasteEdges(s, Tail(cedges), id_map)

\* paste that clears the selection before it looks at the clipboard
paste_clears_first(s, offset) ==
    IF s.clipboard.nodes = <<>>
    THEN [st |-> clear_selection(s), ret |-> <<>>]
    ELSE LET pasted == PasteNodes(clear_selection(s), s.clipboard.nodes, offset)
         IN [st |-> PasteEdges(pasted.st, s.clipboard.edges, pasted.id_map),
             ret |-> pasted.new_node_ids]

\* FlowState::paste
paste(s, offset) ==
    IF s.clipboard.nodes = <<>>
    THEN [st |-> s, ret |-> <<>>]
    ELSE LET pasted == PasteNodes(clear_selection(s), s.clipboard.nodes, offset)
         IN [st |-> PasteEdges(pasted.st, s.clipboard.edges, pasted.id_map),
             ret |-> pasted.new_node_ids]

\* FlowState::set_snap_grid
set_snap_grid(s, grid) == [s EXCEPT !.snap_grid = grid]

\* FlowState::pan
pan(s, dx, dy) ==
    [s EXCEPT !.viewport = [s.viewport EXCEPT !.x = RatAdd(s.viewport.x, RatInt(dx)),
                                              !.y = RatAdd(s.viewport.y, RatInt(dy))]]

\* FlowState::set_viewport
set_viewport(s, vp) == [s EXCEPT !.viewport = vp]

\* the bounds FlowState::zoom and set_zoom clamp to: 0.1 and 4.0
ZoomFloor == Rat(1, 10)
ZoomCeiling == RatInt(4)

\* a zoom that moves the camera's origin by the zoom ratio and forgets the anchor
ZoomAroundOrigin(vp, new_zoom, center_x, center_y) ==
    ViewportNew(RatDiv(RatMul(vp.x, new_zoom), vp.zoom),
                RatDiv(RatMul(vp.y, new_zoom), vp.zoom),
                new_zoom)

\* the viewport after a zoom to new_zoom around (center_x, center_y):
\*   x = center_x - (center_x - x) * new_zoom / old_zoom, the same for y
ZoomAround(vp, new_zoom, center_x, center_y) ==
    LET old_zoom == vp.zoom
    IN ViewportNew(
           RatSub(center_x, RatDiv(RatMul(RatSub(center_x, vp.x), new_zoom), old_zoom)),
           RatSub(center_y, RatDiv(RatMul(RatSub(center_y, vp.y), new_zoom), old_zoom)),
           new_zoom)

\* FlowState::zoom
zoom(s, delta, center_x, center_y) ==
    [s EXCEPT !.viewport =
        ZoomAround(s.viewport, RatClamp(RatAdd(s.viewport.zoom, delta), ZoomFloor, ZoomCeiling),
                   center_x, center_y)]

\* FlowState::set_zoom
set_zoom(s, z, center_x, center_y) ==
    [s EXCEPT !.viewport =
        ZoomAround(s.viewport, RatClamp(z, ZoomFloor, ZoomCeiling), center_x, center_y)]

\* FlowState::zoom_in, zoom_out: zoom(0.2, ..), zoom(-0.2, ..)
zoom_in(s, center_x, center_y) == zoom(s, Rat(2, 10), center_x, center_y)
zoom_out(s, center_x, center_y) == zoom(s, Rat(-2, 10), center_x, center_y)

\* fit_view, the box of one node; node_dimensions holds no measured size, so
\* width and height come from the node
NodeBox(n) ==
    [min_x |-> n.position.x, min_y |-> n.position.y,
     max_x |-> n.position.x + (IF IsSome(n.width) THEN Unwrap(n.width)
                                ELSE DEFAULT_NODE_WIDTH),
     max_y |-> n.position.y + (IF IsSome(n.height) THEN Unwrap(n.height)
                                ELSE DEFAULT_NODE_HEIGHT)]

\* fit_view, the bounding box b extended by the nodes from index i on
RECURSIVE NodesBox(_, _, _)
NodesBox(ns, i, b) ==
    IF i > Len(ns) THEN b
    ELSE LET c == NodeBox(ns[i])
         IN NodesBox(ns, i + 1,
                     [min_x |-> IF c.min_x < b.min_x THEN c.min_x ELSE b.min_x,
                      min_y |-> IF c.min_y < b.min_y THEN c.min_y ELSE b.min_y,
                      max_x |-> IF c.max_x > b.max_x THEN c.max_x ELSE b.max_x,
                      max_y |-> IF c.max_y > b.max_y THEN c.max_y ELSE b.max_y])

\* FlowState::fit_view (padding and container size are integers)
fit_view(s, padding, container_width, container_height) ==
    IF s.nodes = <<>> THEN s
    ELSE LET b == NodesBox(s.nodes, 2, NodeBox(s.nodes[1]))
             content_width == b.max_x - b.min_x + padding * 2
             content_height == b.max_y - b.min_y + padding * 2
             zoom_x == Rat(container_width, content_width)
             zoom_y == Rat(container_height, content_height)
             z == RatMax(RatMin(RatMin(zoom_x, zoom_y), RatInt(1)), Rat(1, 10))
         IN [s EXCEPT !.viewport =
                ViewportNew(
                    RatSub(RatDiv(RatSub(RatInt(container_width),
                                         RatMul(RatInt(content_width), z)), RatInt(2)),
                           RatMul(RatInt(b.min_x - padding), z)),
                    RatSub(RatDiv(RatSub(RatInt(container_height),
                                         RatMul(RatInt(content_height), z)), RatInt(2)),
                           RatMul(RatInt(b.min_y - padding), z)),
                    z)]

\* FlowState::validate_connection (the is_valid field of its result)
validate_connection(s, pending) ==
    IF pending.source = pending.target
    THEN FALSE
    ELSE ~ \E i \in 1..Len(s.edges) :
              /\ s.edges[i].source = pending.source
              /\ s.edges[i].target = pending.target
              /\ s.edges[i].source_handle = pending.source_handle
              /\ s.edges[i].target_handle = pending.target_handle

\* FlowState::start_connection
start_connection(s, node_id, handle_position, position) ==
    [s EXCEPT !.connection = Some([source |-> node_id,
                                   source_handle |-> handle_position,
                                   source_handle_id |-> None,
                                   target_position |-> position])]

\* FlowState::start_connection_from_handle
start_connection_from_handle(s, node_id, handle_id, handle_position, position) ==
    [s EXCEPT !.connection = Some([source |-> node_id,
                                   source_handle |-> handle_position,
                                   source_handle_id |-> Some(handle_id),
                                   target_position |-> position])]

\* update_connection that starts a draft at the cursor when there is none
update_connection_drafts(s, position) ==
    IF IsSome(s.connection)
    THEN [s EXCEPT !.connection = Some([Unwrap(s.connection) EXCEPT !.target_position = position])]
    ELSE [s EXCEPT !.connection = Some([source |-> "", source_handle |-> "Top",
                                        source_handle_id |-> None,
                                        target_position |-> position])]

\* FlowState::update_connection
update_connection(s, position) ==
    IF IsSome(s.connection)
    THEN [s EXCEPT !.connection = Some([Unwrap(s.connection) EXCEPT !.target_position = position])]
    ELSE s

\* cancel_connection that keeps the draft
cancel_connection_keeps_draft(s) == s

\* FlowState::cancel_connection
cancel_connection(s) == [s EXCEPT !.connection = None]

\* format!("e{}-{}", conn.source, target)
ConnectionEdgeId(source, target) == "e" \o source \o "-" \o target

\* complete_connection_to_handle without the two self-connection tests
complete_connection_allows_self(s, target, target_handle, target_handle_id) ==
    IF IsSome(s.connection)
    THEN LET conn == Unwrap(s.connection)
             taken == [s EXCEPT !.connection = None]
             edge == [with_target_handle(
                          with_source_handle(
                              EdgeNew(ConnectionEdgeId(conn.source, target), conn.source, target),
                              conn.source_handle),
                          target_handle)
                      EXCEPT !.source_handle_id = conn.source_handle_id,
                             !.target_handle_id = target_handle_id]
         IN IF add_edge(taken, edge) = taken THEN [st |-> taken, ret |-> None]
            ELSE [st |-> add_edge(taken, edge), ret |-> Some(edge)]
    ELSE [st |-> s, ret |-> None]

\* FlowState::complete_connection_to_handle
complete_connection_to_handle(s, target, target_handle, target_handle_id) ==
    IF IsSome(s.connection)
    THEN LET conn == Unwrap(s.connection)
             taken == [s EXCEPT !.connection = None]
             pending == [source |-> conn.source, source_handle |-> conn.source_handle,
                         target |-> target, target_handle |-> target_handle]
             edge == [with_target_handle(
                          with_source_handle(
                              EdgeNew(ConnectionEdgeId(conn.source, target), conn.source, target),
                              conn.source_handle),
                          target_handle)
                      EXCEPT !.source_handle_id = conn.source_handle_id,
                             !.target_handle_id = target_handle_id]
         IN IF conn.source = target THEN [st |-> taken, ret |-> None]
            ELSE IF ~validate_connection(taken, pending) THEN [st |-> taken, ret |-> None]
            ELSE [st |-> add_edge(taken, edge), ret |-> Some(edge)]
    ELSE [st |-> s, ret |-> None]

\* FlowState::complete_connection
complete_connection(s, target, target_handle) ==
    complete_connection_to_handle(s, target, target_handle, None)

(***************************************************************************)
(* Calls.  Apply makes one call: the fields become those of the state the  *)
(* method returns, last records the call and pre the state it was made in. *)
(***************************************************************************)
\* a method that returns nothing
Unit(st) == [st |-> st, ret |-> None]

\* the Flow component's signals (use_signal in Flow), as one record
Signals ==
    [dragging_node |-> dragging_node, is_panning |-> is_panning,
     last_mouse_pos |-> last_mouse_pos, selection_box |-> selection_box,
     shift_held |-> shift_held]

\* the signals when the component is first rendered
SignalsDefault ==
    [dragging_node |-> None, is_panning |-> FALSE, last_mouse_pos |-> None,
     selection_box |-> None, shift_held |-> FALSE]

\* one call of a handler of the component: res is [st, ui, ret]
ApplyUi(op, args, res) ==
    /\ steps > 0
    /\ nodes' = res.st.nodes
    /\ edges' = res.st.edges
    /\ viewport' = res.st.viewport
    /\ selected_nodes' = res.st.selected_nodes
    /\ selected_edges' = res.st.selected_edges
    /\ connection' = res.st.connection
    /\ snap_grid' = res.st.snap_grid
    /\ clipboard' = res.st.clipboard
    /\ undo_stack' = res.st.undo_stack
    /\ redo_stack' = res.st.redo_stack
    /\ max_z_index' = res.st.max_z_index
    /\ uuids' = res.st.uuids
    /\ last' = [op |-> op, args |-> args, ret |-> res.ret]
    /\ dragging_node' = res.ui.dragging_node
    /\ is_panning' = res.ui.is_panning
    /\ last_mouse_pos' = res.ui.last_mouse_pos
    /\ selection_box' = res.ui.selection_box
    /\ shift_held' = res.ui.shift_held
    /\ pre' = [st |-> State, last |-> last, ui |-> Signals, prev |-> pre.st]
    /\ steps' = steps - 1
    /\ UNCHANGED props

\* one call of a method of FlowState, which leaves the signals alone
Apply(op, args, res) ==
    ApplyUi(op, args, [st |-> res.st, ui |-> Signals, ret |-> res.ret])

\* the state a constructor returns, before any call
Constructed(s, p, budget) ==
    /\ nodes = s.nodes
    /\ edges = s.edges
    /\ viewport = s.viewport
    /\ selected_nodes = s.selected_nodes
    /\ selected_edges = s.selected_edges
    /\ connection = s.connection
    /\ snap_grid = s.snap_grid
    /\ clipboard = s.clipboard
    /\ undo_stack = s.undo_stack
    /\ redo_stack = s.redo_stack
    /\ max_z_index = s.max_z_index
    /\ uuids = s.uuids
    /\ props = p
    /\ dragging_node = SignalsDefault.dragging_node
    /\ is_panning = SignalsDefault.is_panning
    /\ last_mouse_pos = SignalsDefault.last_mouse_pos
    /\ selection_box = SignalsDefault.selection_box
    /\ shift_held = SignalsDefault.shift_held
    /\ last = [op |-> "new", args |-> <<>>, ret |-> None]
    /\ pre = [st |-> s, last |-> [op |-> "new", args |-> <<>>, ret |-> None],
              ui |-> SignalsDefault, prev |-> s]
    /\ steps = budget

\* FlowProps defaults (flow.rs), the fields the handlers modelled here read
\* and the zoom range and step of ControlsProps (controls.rs), which has the
\* same defaults for min_zoom and max_zoom
PropsDefault ==
    [nodes_connectable |-> TRUE, min_zoom |-> Rat(1, 10), max_zoom |-> RatInt(4),
     pan_on_scroll |-> FALSE, zoom_on_scroll |-> TRUE, zoom_on_double_click |-> TRUE,
     zoom_step |-> Rat(2, 10), pan_on_drag |-> TRUE, nodes_draggable |-> TRUE,
     elements_deletable |-> TRUE, multi_select |-> TRUE, selection_on_drag |-> FALSE]

\* Flow::on_wheel, for a wheel delta in pixels
on_wheel(s, p, delta_x, delta_y, coords_x, coords_y) ==
    IF p.pan_on_scroll THEN pan(s, -delta_x, -delta_y)
    ELSE IF p.zoom_on_scroll
    THEN LET delta == Rat(-delta_y, 500)
             new_zoom == RatClamp(RatAdd(s.viewport.zoom, delta), p.min_zoom, p.max_zoom)
         IN [s EXCEPT !.viewport = ZoomAround(s.viewport, new_zoom, coords_x, coords_y)]
    ELSE s

\* Flow::on_mouse_down, the double-click branch: a second click within 300 ms
\* while zoom_on_double_click is set
on_mouse_down_double_click(s, p, coords_x, coords_y) ==
    LET new_zoom == RatMin(RatMul(s.viewport.zoom, Rat(3, 2)), p.max_zoom)
    IN set_zoom(s, new_zoom, coords_x, coords_y)

\* Flow::on_touch_move, two touches after on_touch_start recorded their
\* distance: scale is distance / prev_distance, the centre lies between them
on_touch_move_pinch(s, p, scale, center_x, center_y) ==
    LET new_zoom == RatClamp(RatMul(s.viewport.zoom, scale), p.min_zoom, p.max_zoom)
    IN [s EXCEPT !.viewport = ZoomAround(s.viewport, new_zoom, center_x, center_y)]

\* Controls, the zoom-in button: zooms around (400, 300)
controls_zoom_in(s, p) ==
    LET new_zoom == RatMin(RatAdd(s.viewport.zoom, p.zoom_step), p.max_zoom)
    IN [s EXCEPT !.viewport = ZoomAround(s.viewport, new_zoom, RatInt(400), RatInt(300))]

\* Controls, the zoom-out button
controls_zoom_out(s, p) ==
    LET new_zoom == RatMax(RatSub(s.viewport.zoom, p.zoom_step), p.min_zoom)
    IN [s EXCEPT !.viewport = ZoomAround(s.viewport, new_zoom, RatInt(400), RatInt(300))]

\* Controls, the fit-view button: resets the viewport
controls_fit_view(s) == set_viewport(s, ViewportDefault)

(***************************************************************************)
(* Spec: the graph store driven through its public methods.                *)
(***************************************************************************)
NodeA == NodeNew("a", 0, 0)
NodeB == NodeNew("b", 200, 0)
NodeC == NodeNew("c", 400, 0)

\* a -> b between the default sides (bottom -> top)
EdgeAB == EdgeNew("e1", "a", "b")
\* a -> b between the handles "source" and "target", built by new_with_handles
EdgeABHandles == EdgeNewWithHandles("e2", "a", "source", "b", "target")
\* a -> b between the same two handles, built by new + with_*_handle_id
EdgeABHandleIds ==
    with_target_handle_id(with_source_handle_id(EdgeNew("e3", "a", "b"), "source"), "target")
EdgeBC == EdgeNew("e5", "b", "c")

InitGraphs ==
    { [nodes |-> <<>>, edges |-> <<>>],
      [nodes |-> <<NodeA, NodeB>>, edges |-> <<>>],
      [nodes |-> <<NodeA, NodeB, NodeC>>, edges |-> <<EdgeAB, EdgeBC>>] }

NodeInputs == {NodeA, NodeC}
EdgeInputs == {EdgeAB, EdgeABHandles, EdgeABHandleIds}
NodeIdInputs == {"a", "b"}
EdgeIdInputs == {"e1"}
PasteOffset == Position(20, 20)

Init == \E g \in InitGraphs : Constructed(with_nodes_and_edges(g.nodes, g.edges), PropsDefault, MaxSteps)

AddNode == \E n \in NodeInputs : Apply("add_node", <<n>>, Unit(add_node(State, n)))

RemoveNode == \E id \in NodeIdInputs : Apply("remove_node", <<id>>, Unit(remove_node(State, id)))

AddEdge == \E e \in EdgeInputs : Apply("add_edge", <<e>>, Unit(add_edge(State, e)))

RemoveEdge == \E id \in EdgeIdInputs : Apply("remove_edge", <<id>>, Unit(remove_edge(State, id)))

SelectNode ==
    \E id \in NodeIdInputs, multi \in BOOLEAN :
        Apply("select_node", <<id, multi>>, Unit(select_node(State, id, multi)))

DeleteSelected == Apply("delete_selected", <<>>, delete_selected(State))

CopySelected == Apply("copy_selected", <<>>, Unit(copy_selected(State)))

Paste == Apply("paste", <<PasteOffset>>, paste(State, PasteOffset))

SaveToHistory == Apply("save_to_history", <<>>, Unit(save_to_history(State)))

Undo == Apply("undo", <<>>, undo(State))

Redo == Apply("redo", <<>>, redo(State))

StartConnection ==
    \E id \in NodeIdInputs :
        Apply("start_connection", <<id, "Bottom", Position(75, 40)>>,
              Unit(start_connection(State, id, "Bottom", Position(75, 40))))

CompleteConnection ==
    \E id \in NodeIdInputs :
        Apply("complete_connection", <<id, "Top">>, complete_connection(State, id, "Top"))

Next ==
    \/ AddNode
    \/ RemoveNode
    \/ AddEdge
    \/ RemoveEdge
    \/ SelectNode
    \/ DeleteSelected
    \/ CopySelected
    \/ Paste
    \/ SaveToHistory
    \/ Undo
    \/ Redo
    \/ StartConnection
    \/ CompleteConnection

Spec == Init /\ [][Next]_vars

(***************************************************************************)
(* Claims about the graph store.                                           *)
(***************************************************************************)
NodeIdsOf(ns) == {ns[i].id : i \in 1..Len(ns)}

\* C1: referential integrity: in every state reached through the public methods,
\* the source and the target of every stored edge are ids of stored nodes.
C1_ReferentialIntegrity ==
    \A i \in 1..Len(edges) :
        /\ edges[i].source \in NodeIdsOf(nodes)
        /\ edges[i].target \in NodeIdsOf(nodes)

Incident(e, id) == e.source = id \/ e.target = id

\* C2: cascade deletion: after remove_node(id) no stored node has the id and no
\* stored edge has it as source or target, and the nodes and edges left are the
\* other nodes and edges of the state before, in their order.
C2_CascadeDeletion ==
    last.op = "remove_node" =>
        LET id == last.args[1]
        IN /\ \A i \in 1..Len(nodes) : nodes[i].id # id
           /\ \A i \in 1..Len(edges) : ~Incident(edges[i], id)
           /\ nodes = SelectSeq(pre.st.nodes, LAMBDA n : n.id # id)
           /\ edges = SelectSeq(pre.st.edges, LAMBDA e : ~Incident(e, id))

\* C2's case: remove_node took a node that had an edge arriving at it and an edge
\* leaving it, and another node and another edge are still stored.
C2_Witness ==
    /\ last.op = "remove_node"
    /\ \E i \in 1..Len(pre.st.nodes) : pre.st.nodes[i].id = last.args[1]
    /\ \E i \in 1..Len(pre.st.edges) : pre.st.edges[i].target = last.args[1]
    /\ \E i \in 1..Len(pre.st.edges) : pre.st.edges[i].source = last.args[1]
    /\ Len(edges) < Len(pre.st.edges)
    /\ nodes # <<>>

\* The connection point of an edge at one end: the handle id when there is one
\* ("takes precedence over source_handle if set", types.rs), else the side.
SourcePoint(e) ==
    IF IsSome(e.source_handle_id) THEN <<"handle", Unwrap(e.source_handle_id)>>
    ELSE <<"side", e.source_handle>>
TargetPoint(e) ==
    IF IsSome(e.target_handle_id) THEN <<"handle", Unwrap(e.target_handle_id)>>
    ELSE <<"side", e.target_handle>>

\* identical in (source, target, source side-or-handle, target side-or-handle)
SameConnection(e, f) ==
    /\ e.source = f.source
    /\ e.target = f.target
    /\ SourcePoint(e) = SourcePoint(f)
    /\ TargetPoint(e) = TargetPoint(f)

\* C3: edge dedup: add_edge of an edge that joins the same connection points of
\* the same two nodes as a stored edge leaves the edge collection as it was.
C3_EdgeDedup ==
    (/\ last.op = "add_edge"
     /\ \E i \in 1..Len(pre.st.edges) : SameConnection(pre.st.edges[i], last.args[1]))
    => edges = pre.st.edges

(***************************************************************************)
(* SpecHistory: undo/redo history.  A run starts from an empty state, from *)
(* a small graph, or from the state that DeepStart rounds of               *)
(* save_to_history(); bring_to_front("a") leave behind, so that the undo   *)
(* stack can fill up within the run.                                       *)
(***************************************************************************)
\* one guarded mutation: save_to_history(), then bring_to_front("a")
SavedRound(s) == bring_to_front(save_to_history(s), "a")

\* k guarded mutations in a row, computed half by half.  Every round leaves a
\* snapshot behind, so the test always succeeds; it makes TLC compute the first
\* half's state before the second half starts from it.
RECURSIVE SavedRounds(_, _)
SavedRounds(s, k) ==
    IF k = 0 THEN s
    ELSE IF k = 1 THEN SavedRound(s)
    ELSE LET t == SavedRounds(s, k \div 2)
         IN IF can_undo(t) THEN SavedRounds(t, k - (k \div 2)) ELSE t

HistoryInits ==
    { FlowStateNew,
      with_nodes_and_edges(<<NodeA, NodeB>>, <<EdgeAB>>),
      SavedRounds(add_node(FlowStateNew, NodeA), DeepStart) }

InitHistory == \E s \in HistoryInits : Constructed(s, PropsDefault, MaxHistorySteps)

HistAddNode == Apply("add_node", <<NodeC>>, Unit(add_node(State, NodeC)))

HistRemoveNode == Apply("remove_node", <<"a">>, Unit(remove_node(State, "a")))

HistSelectNode == Apply("select_node", <<"a", FALSE>>, Unit(select_node(State, "a", FALSE)))

HistSelectEdge == Apply("select_edge", <<"e1", TRUE>>, Unit(select_edge(State, "e1", TRUE)))

HistBringToFront == Apply("bring_to_front", <<"a">>, Unit(bring_to_front(State, "a")))

HistPan == Apply("pan", <<10, 5>>, Unit(pan(State, 10, 5)))

NextHistory ==
    \/ SaveToHistory
    \/ Undo
    \/ Redo
    \/ HistAddNode
    \/ HistRemoveNode
    \/ HistSelectNode
    \/ HistSelectEdge
    \/ HistBringToFront
    \/ HistPan

SpecHistory == InitHistory /\ [][NextHistory]_vars

\* a node or edge collection with every selected flag cleared
Unselected(seq) == [i \in 1..Len(seq) |-> [seq[i] EXCEPT !.selected = FALSE]]

NothingSelected ==
    /\ selected_nodes = <<>>
    /\ selected_edges = <<>>
    /\ \A i \in 1..Len(nodes) : ~nodes[i].selected
    /\ \A i \in 1..Len(edges) : ~edges[i].selected

\* C4: undo/redo inverse law: a successful undo() immediately followed by redo()
\* leaves the nodes and edges as they were before the undo(), with the selection
\* cleared, and both stacks as deep as they were before the undo().
C4_UndoRedoInverse ==
    [][ (last.op = "undo" /\ last.ret = TRUE /\ last'.op = "redo")
        => /\ last'.ret = TRUE
           /\ nodes' = Unselected(pre.st.nodes)
           /\ edges' = Unselected(pre.st.edges)
           /\ Len(undo_stack') = Len(pre.st.undo_stack)
           /\ Len(redo_stack') = Len(pre.st.redo_stack) ]_vars

\* C4's case: redo() right after a successful undo(), where the undo had changed
\* the nodes or the edges.
C4_Witness ==
    /\ last.op = "redo"
    /\ last.ret = TRUE
    /\ pre.last.op = "undo"
    /\ pre.last.ret = TRUE
    /\ <<nodes, edges>> # <<Unselected(pre.st.nodes), Unselected(pre.st.edges)>>
    /\ edges # <<>>

\* C5: bounded history: the undo stack never holds more than MAX_HISTORY_SIZE
\* snapshots, whoever pushed them, and save_to_history() on a full stack evicts
\* the oldest snapshot and keeps the others, in order, below the new one.
C5_BoundedHistory ==
    /\ Len(undo_stack) <= MAX_HISTORY_SIZE
    /\ (last.op = "save_to_history" /\ Len(pre.st.undo_stack) = MAX_HISTORY_SIZE)
       => undo_stack = Append(Tail(pre.st.undo_stack),
                              [nodes |-> pre.st.nodes, edges |-> pre.st.edges])

\* C5's case: save_to_history() was called on a full undo stack.
C5_Witness ==
    /\ last.op = "save_to_history"
    /\ Len(pre.st.undo_stack) = MAX_HISTORY_SIZE
    /\ pre.st.undo_stack[1] # pre.st.undo_stack[2]
    /\ Len(undo_stack) = MAX_HISTORY_SIZE

\* C6: linear undo: after save_to_history() the redo stack is empty, the top of the
\* undo stack is the current nodes and edges, and nodes, edges, selection and
\* viewport are what they were before the call.
C6_LinearUndo ==
    last.op = "save_to_history" =>
        /\ redo_stack = <<>>
        /\ ~can_redo(State)
        /\ undo_stack # <<>>
        /\ Last(undo_stack) = [nodes |-> nodes, edges |-> edges]
        /\ nodes = pre.st.nodes
        /\ edges = pre.st.edges
        /\ selected_nodes = pre.st.selected_nodes
        /\ selected_edges = pre.st.selected_edges
        /\ viewport = pre.st.viewport

\* C6's case: save_to_history() was called after an undo(), with a snapshot waiting
\* on the redo stack.
C6_Witness ==
    /\ last.op = "save_to_history"
    /\ pre.st.redo_stack # <<>>
    /\ pre.last.op = "undo"
    /\ nodes # <<>>

\* C7: a successful undo() returns true, restores the nodes and edges of the top
\* snapshot of the undo stack, pushes the state it was called in onto the redo
\* stack and leaves nothing selected; redo() does the same with the stacks swapped.
C7_UndoRestores ==
    /\ (last.op = "undo" /\ pre.st.undo_stack # <<>>)
       => /\ last.ret = TRUE
          /\ nodes = Unselected(Last(pre.st.undo_stack).nodes)
          /\ edges = Unselected(Last(pre.st.undo_stack).edges)
          /\ undo_stack = Front(pre.st.undo_stack)
          /\ redo_stack = Append(pre.st.redo_stack,
                                 [nodes |-> pre.st.nodes, edges |-> pre.st.edges])
          /\ NothingSelected
    /\ (last.op = "redo" /\ pre.st.redo_stack # <<>>)
       => /\ last.ret = TRUE
          /\ nodes = Unselected(Last(pre.st.redo_stack).nodes)
          /\ edges = Unselected(Last(pre.st.redo_stack).edges)
          /\ redo_stack = Front(pre.st.redo_stack)
          /\ undo_stack = Append(pre.st.undo_stack,
                                 [nodes |-> pre.st.nodes, edges |-> pre.st.edges])
          /\ NothingSelected

\* C7's case: undo() succeeded with a node selected at the call and a node flagged
\* selected in the snapshot it restored.
C7_Witness ==
    /\ last.op = "undo"
    /\ last.ret = TRUE
    /\ pre.st.selected_nodes # <<>>
    /\ \E i \in 1..Len(Last(pre.st.undo_stack).nodes) :
           Last(pre.st.undo_stack).nodes[i].selected
    /\ nodes # pre.st.nodes

\* C8: undo() on an empty undo stack returns false and changes nothing, and so
\* does redo() on an empty redo stack.
C8_EmptyStackNoOp ==
    /\ (last.op = "undo" /\ pre.st.undo_stack = <<>>)
       => (last.ret = FALSE /\ State = pre.st)
    /\ (last.op = "redo" /\ pre.st.redo_stack = <<>>)
       => (last.ret = FALSE /\ State = pre.st)

\* C8's case: undo() was called on an empty undo stack while a node was selected.
C8_Witness ==
    /\ last.op = "undo"
    /\ pre.st.undo_stack = <<>>
    /\ last.ret = FALSE
    /\ selected_nodes # <<>>
    /\ \E i \in 1..Len(nodes) : nodes[i].selected

(***************************************************************************)
(* SpecConnection: drafting a connection, through the FlowState methods    *)
(* and through the Flow component's on_connect_start / on_connect_end.     *)
(***************************************************************************)
\* HandlePosition::offset(width, height)
HandleOffset(handle_pos, width, height) ==
    CASE handle_pos = "Top" -> Position(width \div 2, 0)
      [] handle_pos = "Right" -> Position(width, height \div 2)
      [] handle_pos = "Bottom" -> Position(width \div 2, height)
      [] handle_pos = "Left" -> Position(0, height \div 2)

\* Node::handle_position(handle_pos)
handle_position(n, handle_pos) ==
    LET w == IF IsSome(n.width) THEN Unwrap(n.width) ELSE DEFAULT_NODE_WIDTH
        h == IF IsSome(n.height) THEN Unwrap(n.height) ELSE DEFAULT_NODE_HEIGHT
        offset == HandleOffset(handle_pos, w, h)
    IN Position(n.position.x + offset.x, n.position.y + offset.y)

\* Node::get_handle(handle_id): the first handle with the id, if any
get_handle(n, handle_id) ==
    LET hits == SelectSeq(n.handles, LAMBDA h : h.id = handle_id)
    IN IF hits = <<>> THEN None ELSE Some(hits[1])

\* Flow: the on_connect_start handler
on_connect_start(s, p, node_id, handle_pos) ==
    IF ~p.nodes_connectable THEN s
    ELSE LET node_info == get_node(s, node_id)
         IN IF IsSome(node_info) /\ Unwrap(node_info).connectable
            THEN start_connection(s, node_id, handle_pos,
                                  handle_position(Unwrap(node_info), handle_pos))
            ELSE s

\* Flow: the on_connect_end handler; ret is the edge it reports to on_connect
on_connect_end(s, p, node_id, handle_pos) ==
    IF ~p.nodes_connectable THEN [st |-> s, ret |-> None]
    ELSE complete_connection(IF IsSome(s.connection) THEN save_to_history(s) ELSE s,
                             node_id, handle_pos)

\* a connectable node whose only source handle "out" is not connectable
NodeH ==
    with_handles(NodeNew("h", 0, 200),
                 << [HandleSource("out") EXCEPT !.connectable = FALSE], HandleTarget("in") >>)

\* a node with handles that is not connectable
NodeLocked == with_connectable(NodeNew("c", 400, 0), FALSE)

ConnNodes == <<NodeA, NodeB, NodeLocked, NodeH>>

ConnNodeIds == {"a", "b", "c", "h"}

ConnHandleInputs == { <<"a", "source", "Bottom">>, <<"h", "out", "Right">>, <<"c", "source", "Bottom">> }

\* an edge between the handles "out" of h and "in" of b, sides left at the default
EdgeHBHandleIds ==
    with_target_handle_id(with_source_handle_id(EdgeNew("e7", "h", "b"), "out"), "in")

\* the state after a first connection from a to b was drawn and committed
ConnCommitted ==
    complete_connection(
        start_connection(with_nodes_and_edges(ConnNodes, <<>>), "a", "Bottom", Position(75, 40)),
        "b", "Top").st

ConnInits ==
    { with_nodes_and_edges(ConnNodes, <<>>),
      with_nodes_and_edges(ConnNodes, <<EdgeAB>>),
      with_nodes_and_edges(ConnNodes, <<EdgeHBHandleIds>>),
      ConnCommitted }

InitConnection ==
    \E p \in {PropsDefault, [PropsDefault EXCEPT !.nodes_connectable = FALSE]},
       s \in ConnInits :
        Constructed(s, p, MaxConnSteps)

ConnStart ==
    \E id \in ConnNodeIds :
        Apply("start_connection", <<id, "Bottom", Position(75, 40)>>,
              Unit(start_connection(State, id, "Bottom", Position(75, 40))))

ConnStartFromHandle ==
    \E i \in ConnHandleInputs :
        Apply("start_connection_from_handle", <<i[1], i[2], i[3], Position(150, 220)>>,
              Unit(start_connection_from_handle(State, i[1], i[2], i[3], Position(150, 220))))

ConnUpdate ==
    Apply("update_connection", <<Position(300, 20)>>,
          Unit(update_connection(State, Position(300, 20))))

ConnCancel == Apply("cancel_connection", <<>>, Unit(cancel_connection(State)))

ConnComplete ==
    \E id \in {"a", "b"} :
        Apply("complete_connection", <<id, "Top">>, complete_connection(State, id, "Top"))

ConnCompleteToHandle ==
    \E id \in {"b", "h"} :
        Apply("complete_connection_to_handle", <<id, "Left", Some("in")>>,
              complete_connection_to_handle(State, id, "Left", Some("in")))

OnConnectStart ==
    \E id \in ConnNodeIds \cup {"zz"} :
        Apply("on_connect_start", <<id, "Bottom">>,
              Unit(on_connect_start(State, props, id, "Bottom")))

OnConnectEnd ==
    \E id \in {"a", "b"} :
        Apply("on_connect_end", <<id, "Top">>, on_connect_end(State, props, id, "Top"))

NextConnection ==
    \/ ConnStart
    \/ ConnStartFromHandle
    \/ ConnUpdate
    \/ ConnCancel
    \/ ConnComplete
    \/ ConnCompleteToHandle
    \/ OnConnectStart
    \/ OnConnectEnd

SpecConnection == InitConnection /\ [][NextConnection]_vars

\* C9: a start_connection / start_connection_from_handle call made while a draft
\* connection exists is a no-op: the draft's source node, source handle and
\* cursor position stay what they were.
C9_StartOnlyFromIdle ==
    (/\ last.op \in {"start_connection", "start_connection_from_handle"}
     /\ pre.st.connection # None)
    => connection = pre.st.connection

\* the node a start call names is there and is not connectable, or the handle id
\* the call gives names one of its handles and that handle is not connectable
StartRefused(s, call) ==
    LET node == get_node(s, call.args[1])
    IN /\ IsSome(node)
       /\ \/ ~Unwrap(node).connectable
          \/ /\ call.op = "start_connection_from_handle"
             /\ IsSome(get_handle(Unwrap(node), call.args[2]))
             /\ ~Unwrap(get_handle(Unwrap(node), call.args[2])).connectable

\* C10: a connection start from Idle on a node that is not connectable, or with
\* the id of a handle that is not connectable, records no draft connection.
C10_StartOnlyIfConnectable ==
    (/\ last.op \in {"start_connection", "start_connection_from_handle", "on_connect_start"}
     /\ pre.st.connection = None
     /\ StartRefused(pre.st, last))
    => connection = None

CompleteOps == {"complete_connection", "complete_connection_to_handle"}

\* C11: after complete_connection / complete_connection_to_handle, whatever it
\* returned, and after cancel_connection, there is no draft connection; and
\* cancel_connection leaves the edge collection as it was.
C11_BackToIdle ==
    /\ last.op \in CompleteOps \cup {"cancel_connection"} => connection = None
    /\ last.op = "cancel_connection" => edges = pre.st.edges

\* C11's case: a completion that was rejected while a draft was pending.
C11_Witness ==
    /\ last.op \in CompleteOps
    /\ pre.st.connection # None
    /\ last.ret = None
    /\ connection = None

\* C12: self-loop rejection: completing a draft onto the draft's own source node
\* returns no edge, leaves the edges as they were and clears the draft.
C12_SelfLoopRejected ==
    (/\ last.op \in CompleteOps
     /\ pre.st.connection # None
     /\ Unwrap(pre.st.connection).source = last.args[1])
    => /\ last.ret = None
       /\ edges = pre.st.edges
       /\ connection = None

\* C12's case: a draft drawn from a handle id, completed onto a handle of the
\* same node.
C12_Witness ==
    /\ last.op = "complete_connection_to_handle"
    /\ pre.st.connection # None
    /\ Unwrap(pre.st.connection).source = last.args[1]
    /\ Unwrap(pre.st.connection).source_handle_id # None
    /\ last.ret = None

\* the edge a completion call is asked to create from the pending draft
DraftEdge(conn, call) ==
    [source |-> conn.source, target |-> call.args[1],
     source_handle |-> conn.source_handle, target_handle |-> call.args[2],
     source_handle_id |-> conn.source_handle_id,
     target_handle_id |-> IF call.op = "complete_connection_to_handle" THEN call.args[3] ELSE None]

\* C13: a completion returns an edge exactly when the call appended that one edge
\* to the store, and when an edge joining the same connection points of the same
\* two nodes is already stored it returns nothing and leaves the edges alone.
C13_EdgeIffInserted ==
    last.op \in CompleteOps =>
        /\ last.ret # None => edges = Append(pre.st.edges, Unwrap(last.ret))
        /\ last.ret = None => edges = pre.st.edges
        /\ (/\ pre.st.connection # None
            /\ \E i \in 1..Len(pre.st.edges) :
                   SameConnection(pre.st.edges[i], DraftEdge(Unwrap(pre.st.connection), last)))
           => (last.ret = None /\ edges = pre.st.edges)

\* C14: update_connection changes the draft's cursor position and nothing else,
\* and without a draft it changes nothing.
C14_UpdateOnlyCursor ==
    last.op = "update_connection" =>
        IF pre.st.connection # None
        THEN State = [pre.st EXCEPT !.connection =
                         Some([Unwrap(pre.st.connection) EXCEPT !.target_position = last.args[1]])]
        ELSE State = pre.st

\* C14's case: update_connection moved the cursor of a pending draft.
C14_Witness ==
    /\ last.op = "update_connection"
    /\ pre.st.connection # None
    /\ connection # pre.st.connection
    /\ Unwrap(connection).source = Unwrap(pre.st.connection).source

\* C15: edge ids are unique: after any sequence of connection commits on a graph
\* with unique edge ids, no two stored edges have the same id.
C15_EdgeIdsUnique ==
    \A i, j \in 1..Len(edges) : i # j => edges[i].id # edges[j].id

(***************************************************************************)
(* SpecZOrder: stacking order.  A run starts from three nodes handed to    *)
(* with_nodes_and_edges (all at z_index 0) or added one by one with        *)
(* add_node (z_index 1, 2, 3).                                             *)
(***************************************************************************)
ZInits ==
    { with_nodes_and_edges(<<NodeA, NodeB, NodeC>>, <<>>),
      add_node(add_node(add_node(FlowStateNew, NodeA), NodeB), NodeC) }

InitZOrder == \E s \in ZInits : Constructed(s, PropsDefault, MaxZSteps)

ZNodeIds == {"a", "b", "c", "zz"}

\* nodes to add: one without a z_index, one with an explicit z_index
ZNodeInputs == { NodeNew("d", 0, 100), with_z_index(NodeNew("f", 200, 100), 5) }

ZBringToFront ==
    \E id \in ZNodeIds : Apply("bring_to_front", <<id>>, Unit(bring_to_front(State, id)))

ZSendToBack ==
    \E id \in ZNodeIds : Apply("send_to_back", <<id>>, Unit(send_to_back(State, id)))

\* add_node is handed a node whose id is not in use (the caller's responsibility)
ZAddNode ==
    \E n \in ZNodeInputs :
        /\ n.id \notin {nodes[i].id : i \in 1..Len(nodes)}
        /\ Apply("add_node", <<n>>, Unit(add_node(State, n)))

ZSelectNode == Apply("select_node", <<"a", FALSE>>, Unit(select_node(State, "a", FALSE)))

NextZOrder ==
    \/ ZBringToFront
    \/ ZSendToBack
    \/ ZAddNode
    \/ ZSelectNode
    \/ CopySelected
    \/ Paste
    \/ SaveToHistory
    \/ Undo
    \/ Redo

SpecZOrder == InitZOrder /\ [][NextZOrder]_vars

\* the ids of a node sequence, in order, without the node id
OtherIds(ns, id) ==
    LET others == SelectSeq(ns, LAMBDA n : n.id # id)
    IN [i \in 1..Len(others) |-> others[i].id]

\* the call named a node that was stored when it was made
OnStoredNode == IsSome(get_node(pre.st, last.args[1]))

\* C16: after bring_to_front(id) on a stored node, that node's z_index is greater
\* than every other node's, it is the last of nodes_sorted_by_z_index(), and
\* every other node is as it was.
C16_BringToFront ==
    (last.op = "bring_to_front" /\ OnStoredNode) =>
        LET id == last.args[1]
            z == Unwrap(get_node(State, id)).z_index
        IN /\ \A i \in 1..Len(nodes) : nodes[i].id # id => nodes[i].z_index < z
           /\ Last(nodes_sorted_by_z_index(State)).id = id
           /\ Len(nodes) = Len(pre.st.nodes)
           /\ \A i \in 1..Len(nodes) : nodes[i].id # id => nodes[i] = pre.st.nodes[i]

\* C17: after send_to_back(id) on a stored node, that node's z_index is 0, every
\* other node's z_index is one more than before, the node is the first of
\* nodes_sorted_by_z_index() and the other nodes keep their render order.
C17_SendToBack ==
    (last.op = "send_to_back" /\ OnStoredNode) =>
        LET id == last.args[1]
        IN /\ Unwrap(get_node(State, id)).z_index = 0
           /\ Len(nodes) = Len(pre.st.nodes)
           /\ \A i \in 1..Len(nodes) :
                  nodes[i].id # id => nodes[i].z_index = pre.st.nodes[i].z_index + 1
           /\ nodes_sorted_by_z_index(State)[1].id = id
           /\ OtherIds(nodes_sorted_by_z_index(State), id)
                  = OtherIds(nodes_sorted_by_z_index(pre.st), id)

(***************************************************************************)
(* SpecDelete: selecting and deleting.  The graph has a node and two edges *)
(* that are not deletable:  a -e1-> b -e2-> c -e3-> d,  with c, e2 and e3  *)
(* not deletable.                                                          *)
(***************************************************************************)
NodeD == NodeNew("d", 600, 0)

DeleteGraph ==
    with_nodes_and_edges(
        <<NodeA, NodeB, with_deletable(NodeC, FALSE), NodeD>>,
        <<EdgeAB,
          edge_with_deletable(EdgeNew("e2", "b", "c"), FALSE),
          edge_with_deletable(EdgeNew("e3", "c", "d"), FALSE)>>)

InitDelete == Constructed(DeleteGraph, PropsDefault, MaxDeleteSteps)

DelSelectNode ==
    \E id \in {"a", "b", "c", "d", "zz"} :
        Apply("select_node", <<id, TRUE>>, Unit(select_node(State, id, TRUE)))

DelSelectEdge ==
    \E id \in {"e1", "e2", "e3", "ez"} :
        Apply("select_edge", <<id, TRUE>>, Unit(select_edge(State, id, TRUE)))

NextDelete ==
    \/ DelSelectNode
    \/ DelSelectEdge
    \/ DeleteSelected
    \/ SaveToHistory
    \/ Undo

SpecDelete == InitDelete /\ [][NextDelete]_vars

\* ids of the nodes of s that are selected and deletable
DeletableSelectedNodes(s) ==
    {s.nodes[i].id : i \in {j \in 1..Len(s.nodes) :
                              /\ Contains(s.selected_nodes, s.nodes[j].id)
                              /\ s.nodes[j].deletable}}

\* the edge is selected and deletable, or touches a node that is being removed
EdgeGoes(s, e) ==
    \/ Contains(s.selected_edges, e.id) /\ e.deletable
    \/ e.source \in DeletableSelectedNodes(s)
    \/ e.target \in DeletableSelectedNodes(s)

\* C18: delete_selected() removes exactly the selected deletable nodes, the
\* selected deletable edges and every edge touching a removed node; everything
\* else stays, in order; the ids it returns are the ids of what it removed.
C18_DeleteSelected ==
    last.op = "delete_selected" =>
        /\ Unselected(nodes) =
               Unselected(SelectSeq(pre.st.nodes,
                                    LAMBDA n : n.id \notin DeletableSelectedNodes(pre.st)))
        /\ Unselected(edges) =
               Unselected(SelectSeq(pre.st.edges, LAMBDA e : ~EdgeGoes(pre.st, e)))
        /\ Range(last.ret.nodes) = DeletableSelectedNodes(pre.st)
        /\ Len(last.ret.nodes) = Cardinality(DeletableSelectedNodes(pre.st))
        /\ last.ret.edges =
               {pre.st.edges[i].id : i \in {j \in 1..Len(pre.st.edges) :
                                               EdgeGoes(pre.st, pre.st.edges[j])}}

\* C18's case: a call that removed a node and, with it, an edge that is not
\* deletable, while a selected node and a selected edge that are not deletable
\* stayed.
C18_Witness ==
    /\ last.op = "delete_selected"
    /\ last.ret.nodes # <<>>
    /\ \E i \in 1..Len(pre.st.edges) :
           /\ ~pre.st.edges[i].deletable
           /\ pre.st.edges[i].id \in last.ret.edges
    /\ \E i \in 1..Len(nodes) :
           ~nodes[i].deletable /\ Contains(pre.st.selected_nodes, nodes[i].id)
    /\ \E i \in 1..Len(edges) :
           ~edges[i].deletable /\ Contains(pre.st.selected_edges, edges[i].id)

(***************************************************************************)
(* SpecPaste: copy and paste.  A run starts from a plain graph a -e1-> b   *)
(* or from a multi-handle graph in which two edges lead from m to j, from  *)
(* handle out1 to in1 and from handle out2 to in2.                         *)
(***************************************************************************)
NodeM ==
    with_handles(NodeNew("m", 0, 0), <<HandleSource("out1"), HandleSource("out2")>>)

NodeJ ==
    with_handles(NodeNew("j", 200, 0), <<HandleTarget("in1"), HandleTarget("in2")>>)

PasteInits ==
    { with_nodes_and_edges(<<NodeA, NodeB>>, <<EdgeAB>>),
      with_nodes_and_edges(<<NodeM, NodeJ>>,
                           <<EdgeNewWithHandles("m1", "m", "out1", "j", "in1"),
                             EdgeNewWithHandles("m2", "m", "out2", "j", "in2")>>) }

InitPaste == \E s \in PasteInits : Constructed(s, PropsDefault, MaxPasteSteps)

PasteSelectNode ==
    \E id \in {"a", "b", "m", "j"} :
        Apply("select_node", <<id, TRUE>>, Unit(select_node(State, id, TRUE)))

NextPaste ==
    \/ PasteSelectNode
    \/ CopySelected
    \/ Paste
    \/ DeleteSelected
    \/ SaveToHistory
    \/ Undo

SpecPaste == InitPaste /\ [][NextPaste]_vars

\* the entries a call appended to a collection that held before entries before
Added(now, before) == SubSeq(now, Len(before) + 1, Len(now))

\* the id of the pasted copy of the clipboard node old, "" if there is none
CopyOf(cnodes, new_nodes, old) ==
    IF \E i \in 1..Len(cnodes) : cnodes[i].id = old /\ i <= Len(new_nodes)
    THEN new_nodes[CHOOSE i \in 1..Len(cnodes) : cnodes[i].id = old /\ i <= Len(new_nodes)].id
    ELSE ""

\* C19: paste(offset) with a non-empty clipboard appends one node per clipboard
\* node, with an id unused so far and the clipboard position moved by offset, and
\* one edge per clipboard edge, with an id unused so far, running between the
\* copies of its endpoints; the node selection and the returned list are the
\* pasted node ids.
C19_Paste ==
    (last.op = "paste" /\ pre.st.clipboard.nodes # <<>>) =>
        LET cnodes == pre.st.clipboard.nodes
            cedges == pre.st.clipboard.edges
            offset == last.args[1]
            new_nodes == Added(nodes, pre.st.nodes)
            new_edges == Added(edges, pre.st.edges)
        IN /\ Len(new_nodes) = Len(cnodes)
           /\ SubSeq(nodes, 1, Len(pre.st.nodes)) = Unselected(pre.st.nodes)
           /\ \A i \in 1..Len(new_nodes) :
                  /\ new_nodes[i].id \notin NodeIdsOf(pre.st.nodes)
                  /\ \A j \in 1..Len(new_nodes) : new_nodes[i].id = new_nodes[j].id => i = j
                  /\ i <= Len(cnodes) =>
                         new_nodes[i].position = Position(cnodes[i].position.x + offset.x,
                                                          cnodes[i].position.y + offset.y)
           /\ Len(new_edges) = Len(cedges)
           /\ SubSeq(edges, 1, Len(pre.st.edges)) = Unselected(pre.st.edges)
           /\ \A i \in 1..Len(new_edges) :
                  /\ new_edges[i].id \notin {pre.st.edges[j].id : j \in 1..Len(pre.st.edges)}
                  /\ \A j \in 1..Len(new_edges) : new_edges[i].id = new_edges[j].id => i = j
                  /\ i <= Len(cedges) =>
                         /\ new_edges[i].source = CopyOf(cnodes, new_nodes, cedges[i].source)
                         /\ new_edges[i].target = CopyOf(cnodes, new_nodes, cedges[i].target)
           /\ selected_nodes = [i \in 1..Len(new_nodes) |-> new_nodes[i].id]
           /\ last.ret = selected_nodes

\* C20: paste(offset) with an empty clipboard returns an empty list and leaves
\* the whole state as it was.
C20_PasteEmpty ==
    (last.op = "paste" /\ pre.st.clipboard.nodes = <<>>) =>
        (last.ret = <<>> /\ State = pre.st)

\* C20's case: paste on an empty clipboard while a node is selected.
C20_Witness ==
    /\ last.op = "paste"
    /\ pre.st.clipboard.nodes = <<>>
    /\ selected_nodes # <<>>
    /\ \E i \in 1..Len(nodes) : nodes[i].selected

(***************************************************************************)
(* SpecSelect: selecting and copying.  Nodes a (0,0), b (200,0) and        *)
(* c (500,500) are selectable, node n (160,60) is not; edge e1 a -> b is   *)
(* selectable, edge e2 b -> c is not.  A run starts with nothing selected  *)
(* or with a selected.                                                     *)
(***************************************************************************)
NodeFar == NodeNew("c", 500, 500)

NodeN == with_selectable(NodeNew("n", 160, 60), FALSE)

SelectGraph ==
    with_nodes_and_edges(<<NodeA, NodeB, NodeFar, NodeN>>,
                         <<EdgeAB, edge_with_selectable(EdgeNew("e2", "b", "c"), FALSE)>>)

SelectInits == { SelectGraph, select_node(SelectGraph, "a", FALSE) }

InitSelect == \E s \in SelectInits : Constructed(s, PropsDefault, MaxSelectSteps)

\* the rectangle of the example, one that only touches a and b at a corner and
\* covers n, and one that meets no node
RectInputs ==
    { SelectionRect(0, 0, 250, 50), SelectionRect(150, 40, 50, 60), SelectionRect(400, 400, 50, 50) }

\* an edge from an id that is no stored node
EdgeFromMissing == EdgeNew("x1", "zz", "a")

SelSelectNode ==
    \E id \in {"a", "n", "zz"}, multi \in BOOLEAN :
        Apply("select_node", <<id, multi>>, Unit(select_node(State, id, multi)))

SelSelectEdge ==
    \E id \in {"e1", "e2"}, multi \in BOOLEAN :
        Apply("select_edge", <<id, multi>>, Unit(select_edge(State, id, multi)))

SelSelectInRect ==
    \E rect \in RectInputs, multi \in BOOLEAN :
        Apply("select_in_rect", <<rect, multi>>, Unit(select_in_rect(State, rect, multi)))

SelAddEdge == Apply("add_edge", <<EdgeFromMissing>>, Unit(add_edge(State, EdgeFromMissing)))

NextSelect ==
    \/ SelSelectNode
    \/ SelSelectEdge
    \/ SelSelectInRect
    \/ SelAddEdge
    \/ CopySelected

SpecSelect == InitSelect /\ [][NextSelect]_vars

\* C21: after copy_selected() the clipboard holds exactly the stored nodes whose
\* id is selected and the stored edges with both ends selected, every clipboard
\* edge has both ends among the clipboard nodes, and nodes, edges and selection
\* are as before.
C21_CopySelected ==
    last.op = "copy_selected" =>
        /\ clipboard.nodes =
               SelectSeq(pre.st.nodes, LAMBDA n : Contains(pre.st.selected_nodes, n.id))
        /\ clipboard.edges =
               SelectSeq(pre.st.edges, LAMBDA e : /\ Contains(pre.st.selected_nodes, e.source)
                                                  /\ Contains(pre.st.selected_nodes, e.target))
        /\ \A i \in 1..Len(clipboard.edges) :
               /\ clipboard.edges[i].source \in NodeIdsOf(clipboard.nodes)
               /\ clipboard.edges[i].target \in NodeIdsOf(clipboard.nodes)
        /\ State = [pre.st EXCEPT !.clipboard = clipboard]

\* the entity a select_node / select_edge call names is stored and not selectable
NotSelectable(s, call) ==
    IF call.op = "select_node"
    THEN IsSome(get_node(s, call.args[1])) /\ ~Unwrap(get_node(s, call.args[1])).selectable
    ELSE IsSome(get_edge(s, call.args[1])) /\ ~Unwrap(get_edge(s, call.args[1])).selectable

\* C22: select_node / select_edge on an entity that is not selectable changes
\* nothing, whatever multi is: the entity is neither flagged nor listed and what
\* was selected stays selected.
C22_NotSelectableNoOp ==
    (last.op \in {"select_node", "select_edge"} /\ NotSelectable(pre.st, last))
    => State = pre.st

\* C22's case: select_node with multi = false on the node that is not selectable,
\* while another node was selected.
C22_Witness ==
    /\ last.op = "select_node"
    /\ last.args[2] = FALSE
    /\ NotSelectable(pre.st, last)
    /\ selected_nodes # <<>>
    /\ \E i \in 1..Len(nodes) : nodes[i].selected

\* the node's box and the rectangle share a point
Overlaps(rect, n) ==
    LET w == IF IsSome(n.width) THEN Unwrap(n.width) ELSE 150
        h == IF IsSome(n.height) THEN Unwrap(n.height) ELSE 40
    IN /\ rect.x <= n.position.x + w
       /\ n.position.x <= rect.x + rect.width
       /\ rect.y <= n.position.y + h
       /\ n.position.y <= rect.y + rect.height

\* C23: select_in_rect(rect, multi) leaves selected the selectable nodes whose
\* box meets rect (touching counts), together with the nodes selected before
\* when multi is true; it selects no edge, and with multi = false the edge
\* selection is cleared as well.
C23_SelectInRect ==
    last.op = "select_in_rect" =>
        LET rect == last.args[1]
            multi == last.args[2]
            hits == {pre.st.nodes[i].id : i \in {j \in 1..Len(pre.st.nodes) :
                        pre.st.nodes[j].selectable /\ Overlaps(rect, pre.st.nodes[j])}}
        IN /\ Range(selected_nodes) =
                  hits \cup (IF multi THEN Range(pre.st.selected_nodes) ELSE {})
           /\ Len(selected_nodes) = Cardinality(Range(selected_nodes))
           /\ \A i \in 1..Len(nodes) :
                  nodes[i].selected <=>
                      \/ nodes[i].id \in hits
                      \/ multi /\ pre.st.nodes[i].selected
           /\ selected_edges = (IF multi THEN pre.st.selected_edges ELSE <<>>)
           /\ edges = (IF multi THEN pre.st.edges ELSE Unselected(pre.st.edges))

\* C23's case: a box selection with multi = false, made while an edge was
\* selected, whose rectangle only touches the two nodes it selects and covers
\* the node that is not selectable.
C23_Witness ==
    /\ last.op = "select_in_rect"
    /\ last.args[2] = FALSE
    /\ pre.st.selected_edges # <<>>
    /\ selected_nodes = <<"a", "b">>
    /\ \E i \in 1..Len(nodes) : ~nodes[i].selectable /\ Overlaps(last.args[1], nodes[i])

(***************************************************************************)
(* SpecMove: moving nodes.  Node p is penned in the extent (0,0)-(300,200),*)
(* node x has exactly the size of its extent, node t has an extent that is *)
(* narrower than the node, node f is not draggable, node q is free.  A run *)
(* starts with the grid off or with a grid of 20, and with nothing         *)
(* selected or with p and f selected.  A panic ends the run.               *)
(***************************************************************************)
MoveGraph ==
    with_nodes_and_edges(
        << with_extent(NodeNew("p", 0, 0), NodeExtentNew(0, 0, 300, 200)),
           NodeNew("q", 200, 0),
           with_draggable(NodeNew("f", 0, 100), FALSE),
           with_extent(NodeNew("t", 0, 300), NodeExtentNew(0, 300, 100, 400)),
           with_extent(with_dimensions(NodeNew("x", 400, 0), 100, 50),
                       NodeExtentNew(400, 0, 500, 50)) >>,
        << EdgeNew("pq", "p", "q") >>)

MoveInits ==
    { set_snap_grid(s, grid) :
        s \in { MoveGraph, select_node(select_node(MoveGraph, "p", FALSE), "f", TRUE) },
        grid \in { SnapGridDefault, SnapGridNew(20) } }

InitMove == \E s \in MoveInits : Constructed(s, PropsDefault, MaxMoveSteps)

\* the call before this state panicked
Panicked == last.ret = Panic

\* targets of update_node_position and offsets of move_selected_nodes
MovePositions == { Position(170, 30), Position(-30, 250) }
MoveOffsets == { Position(30, 10), Position(-30, 250) }

MoveSelectNode ==
    /\ ~Panicked
    /\ \E id \in {"p", "f", "t", "zz"}, multi \in BOOLEAN :
           Apply("select_node", <<id, multi>>, Unit(select_node(State, id, multi)))

UpdateNodePosition ==
    /\ ~Panicked
    /\ \E id \in {"p", "f", "t", "x", "zz"}, position \in MovePositions :
           Apply("update_node_position", <<id, position>>,
                 update_node_position(State, id, position))

MoveSelectedNodes ==
    /\ ~Panicked
    /\ \E d \in MoveOffsets :
           Apply("move_selected_nodes", <<d.x, d.y>>, move_selected_nodes(State, d.x, d.y))

MoveRemoveNode ==
    /\ ~Panicked
    /\ \E id \in {"q", "zz"} : Apply("remove_node", <<id>>, Unit(remove_node(State, id)))

MoveBringToFront ==
    /\ ~Panicked
    /\ \E id \in {"q", "zz"} : Apply("bring_to_front", <<id>>, Unit(bring_to_front(State, id)))

MoveSendToBack ==
    /\ ~Panicked
    /\ \E id \in {"q", "zz"} : Apply("send_to_back", <<id>>, Unit(send_to_back(State, id)))

NextMove ==
    \/ MoveSelectNode
    \/ UpdateNodePosition
    \/ MoveSelectedNodes
    \/ MoveRemoveNode
    \/ MoveBringToFront
    \/ MoveSendToBack

SpecMove == InitMove /\ [][NextMove]_vars

\* the extent of n is at least as large as n
Fits(n) ==
    /\ IsSome(n.extent)
    /\ Unwrap(n.extent).max_x - Unwrap(n.extent).min_x >= WidthOf(n)
    /\ Unwrap(n.extent).max_y - Unwrap(n.extent).min_y >= HeightOf(n)

\* the rectangle of n lies inside its extent
InsideExtent(n) ==
    LET e == Unwrap(n.extent)
        w == IF IsSome(n.width) THEN Unwrap(n.width) ELSE 150
        h == IF IsSome(n.height) THEN Unwrap(n.height) ELSE 40
    IN /\ e.min_x <= n.position.x /\ n.position.x <= e.max_x - w
       /\ e.min_y <= n.position.y /\ n.position.y <= e.max_y - h

\* the position the call asks node n of state s to take, <<>> when it asks none
Requested(s, call, n) ==
    IF call.op = "update_node_position"
    THEN IF n.id = call.args[1] THEN Some(call.args[2]) ELSE None
    ELSE IF Contains(s.selected_nodes, n.id) /\ n.draggable
         THEN Some(Position(n.position.x + call.args[1], n.position.y + call.args[2]))
         ELSE None

\* where a node that fits its extent ends when asked to take position p:
\* snapped first, clamped afterwards
SnapThenClamp(s, n, p) ==
    LET q == snap(s.snap_grid, p)
    IN IF IsSome(n.extent) THEN clamp(Unwrap(n.extent), q, WidthOf(n), HeightOf(n)) ELSE q

\* C24: after update_node_position or move_selected_nodes has moved a node whose
\* extent is at least as large as the node, the node's rectangle lies inside the
\* extent (150 and 40 standing in for an absent width or height), at the
\* position obtained by snapping first and clamping afterwards.
C24_InsideExtent ==
    (last.op \in {"update_node_position", "move_selected_nodes"} /\ ~Panicked) =>
        \A i \in 1..Len(nodes) :
            (IsSome(Requested(pre.st, last, pre.st.nodes[i])) /\ Fits(pre.st.nodes[i])) =>
                /\ InsideExtent(nodes[i])
                /\ nodes[i].position =
                       SnapThenClamp(pre.st, pre.st.nodes[i],
                                     Unwrap(Requested(pre.st, last, pre.st.nodes[i])))

\* C24's case: with the grid on, update_node_position asks the penned node to
\* take a place whose snapped position lies outside the extent, and the node
\* ends on the border of the extent, off the grid.
C24_Witness ==
    /\ last.op = "update_node_position"
    /\ last.args[1] = "p"
    /\ snap_grid.enabled
    /\ ~InsideExtent([nodes[1] EXCEPT !.position = snap(snap_grid, last.args[2])])
    /\ nodes[1].position = Position(150, 40)

\* C25: update_node_position and move_selected_nodes never panic, whatever the
\* extent and the size of the node.
C25_NeverFatal ==
    last.op \in {"update_node_position", "move_selected_nodes"} => ~Panicked

C27_NotDraggableNoOp ==
    (/\ last.op = "update_node_position"
     /\ IsSome(get_node(pre.st, last.args[1]))
     /\ ~Unwrap(get_node(pre.st, last.args[1])).draggable)
    => State = pre.st

\* C28: remove_node, update_node_position, bring_to_front, send_to_back and
\* select_node on an id that names no stored node do not panic and leave the
\* nodes, the edges, the selected ids and the selected flags as they were.
C28_MissingNode ==
    (/\ last.op \in {"remove_node", "update_node_position", "bring_to_front",
                     "send_to_back", "select_node"}
     /\ ~IsSome(get_node(pre.st, last.args[1])))
    => /\ ~Panicked
       /\ nodes = pre.st.nodes
       /\ edges = pre.st.edges
       /\ selected_nodes = pre.st.selected_nodes
       /\ selected_edges = pre.st.selected_edges

(***************************************************************************)
(* SpecCamera: the camera driven through FlowState's camera methods, the   *)
(* Flow component's wheel, double-click and pinch handlers and the         *)
(* Controls buttons.  The graph has a far node, so that fit_view zooms     *)
(* out; the zoom range is the default 0.1 .. 4.0 or 0.5 .. 2.0.            *)
(***************************************************************************)
CameraGraph == with_nodes_and_edges(<<NodeA, NodeB, NodeNew("far", 1410, 900)>>, <<EdgeAB>>)

PropsNarrow == [PropsDefault EXCEPT !.min_zoom = Rat(1, 2), !.max_zoom = RatInt(2)]

InitCamera == \E p \in {PropsDefault, PropsNarrow} : Constructed(CameraGraph, p, MaxCameraSteps)

\* anchor points on the screen
Anchors == { <<RatInt(400), RatInt(300)>>, <<RatInt(100), RatInt(50)>> }

CamZoom ==
    \E delta \in {Rat(1, 2), Rat(-6, 5)}, a \in Anchors :
        Apply("zoom", <<delta, a[1], a[2]>>, Unit(zoom(State, delta, a[1], a[2])))

CamSetZoom ==
    \E z \in {RatInt(10), Rat(1, 20)}, a \in {<<RatInt(100), RatInt(50)>>} :
        Apply("set_zoom", <<z, a[1], a[2]>>, Unit(set_zoom(State, z, a[1], a[2])))

CamZoomIn ==
    Apply("zoom_in", <<RatInt(400), RatInt(300)>>, Unit(zoom_in(State, RatInt(400), RatInt(300))))

CamZoomOut ==
    Apply("zoom_out", <<RatInt(400), RatInt(300)>>, Unit(zoom_out(State, RatInt(400), RatInt(300))))

CamFitView == Apply("fit_view", <<20, 800, 600>>, Unit(fit_view(State, 20, 800, 600)))

CamSetViewport ==
    \E vp \in { ViewportNew(RatInt(0), RatInt(0), RatInt(10)),
                ViewportNew(RatInt(50), RatInt(-20), Rat(1, 4)) } :
        Apply("set_viewport", <<vp>>, Unit(set_viewport(State, vp)))

CamWheel ==
    \E delta_y \in {-100, 2500} :
        Apply("on_wheel", <<delta_y, RatInt(100), RatInt(50)>>,
              Unit(on_wheel(State, props, 0, delta_y, RatInt(100), RatInt(50))))

CamDoubleClick ==
    \E a \in Anchors :
        Apply("on_mouse_down", <<a[1], a[2]>>,
              Unit(on_mouse_down_double_click(State, props, a[1], a[2])))

CamPinch ==
    \E scale \in {Rat(3, 2), Rat(1, 10)} :
        Apply("on_touch_move", <<scale, RatInt(400), RatInt(300)>>,
              Unit(on_touch_move_pinch(State, props, scale, RatInt(400), RatInt(300))))

CamControlsZoomIn == Apply("controls_zoom_in", <<>>, Unit(controls_zoom_in(State, props)))

CamControlsZoomOut == Apply("controls_zoom_out", <<>>, Unit(controls_zoom_out(State, props)))

CamControlsFitView == Apply("controls_fit_view", <<>>, Unit(controls_fit_view(State)))

NextCamera ==
    \/ CamZoom
    \/ CamSetZoom
    \/ CamZoomIn
    \/ CamZoomOut
    \/ CamFitView
    \/ CamSetViewport
    \/ CamWheel
    \/ CamDoubleClick
    \/ CamPinch
    \/ CamControlsZoomIn
    \/ CamControlsZoomOut
    \/ CamControlsFitView

SpecCamera == InitCamera /\ [][NextCamera]_vars

\* C29: in every state reached through the camera operations the camera zoom
\* lies within the configured range [min_zoom, max_zoom].
C29_ZoomInRange ==
    /\ ~RatLess(viewport.zoom, props.min_zoom)
    /\ ~RatLess(props.max_zoom, viewport.zoom)

\* the operations that zoom around an anchor, and the anchor of a call
AnchoredOps == {"zoom", "set_zoom", "on_wheel", "on_mouse_down", "on_touch_move"}

Anchor(call) ==
    IF call.op = "on_mouse_down" THEN <<call.args[1], call.args[2]>>
    ELSE <<call.args[2], call.args[3]>>

\* C30: zoom, set_zoom and the wheel, double-click and pinch handlers leave the
\* diagram-space point under the anchor where it was: screen_to_flow of the
\* anchor is the same before and after the call, also when the requested zoom
\* was clamped.
C30_AnchorPreserved ==
    last.op \in AnchoredOps =>
        screen_to_flow(viewport, Anchor(last)[1], Anchor(last)[2])
            = screen_to_flow(pre.st.viewport, Anchor(last)[1], Anchor(last)[2])

\* C30's case: set_zoom asks for a zoom above 4.0 around an anchor that is not
\* the camera's origin and gets 4.0; the camera has moved.
C30_Witness ==
    /\ last.op = "set_zoom"
    /\ RatLess(ZoomCeiling, last.args[1])
    /\ viewport.zoom = ZoomCeiling
    /\ pre.st.viewport.zoom # ZoomCeiling
    /\ viewport.x # pre.st.viewport.x

(***************************************************************************)
(* SpecGeometry: the pure functions of types.rs applied to points.  A run  *)
(* starts with one of several cameras and grids; each step applies         *)
(* SnapGrid::snap of the state's grid, or a coordinate conversion of the   *)
(* state's camera, to a point and returns the result.                      *)
(***************************************************************************)
GeoCameras ==
    { ViewportDefault,
      ViewportNew(RatInt(30), RatInt(-45), Rat(3, 2)),
      ViewportNew(Rat(-7, 2), RatInt(12), Rat(1, 3)),
      ViewportNew(RatInt(100), RatInt(50), RatInt(-2)) }

GeoGrids == { SnapGridDefault, SnapGridNew(15), SnapGridNew(20), SnapGridNew(1) }

InitGeometry ==
    \E vp \in GeoCameras, grid \in GeoGrids :
        Constructed(set_snap_grid(set_viewport(FlowStateNew, vp), grid),
                    PropsDefault, MaxGeometrySteps)

\* points with integer coordinates, halves of the cells of 20 among them
GeoCoords == {-50, -31, -30, -10, -8, 0, 7, 10, 22, 23, 30, 38}
\* points with fractional coordinates
GeoRats == { RatInt(0), RatInt(-40), Rat(7, 3), Rat(-15, 4), RatInt(125) }

GeoSnap ==
    \E x \in GeoCoords, y \in {-10, 0, 23} :
        Apply("snap", <<Position(x, y)>>,
              [st |-> State, ret |-> Some(snap(snap_grid, Position(x, y)))])

GeoScreenToFlow ==
    \E x \in GeoRats, y \in {RatInt(0), Rat(7, 3)} :
        Apply("screen_to_flow", <<x, y>>,
              [st |-> State, ret |-> Some(screen_to_flow(viewport, x, y))])

GeoFlowToScreen ==
    \E x \in GeoRats, y \in {RatInt(0), Rat(7, 3)} :
        Apply("flow_to_screen", <<x, y>>,
              [st |-> State, ret |-> Some(flow_to_screen(viewport, x, y))])

NextGeometry ==
    \/ GeoSnap
    \/ GeoScreenToFlow
    \/ GeoFlowToScreen

SpecGeometry == InitGeometry /\ [][NextGeometry]_vars

\* C31: with snapping enabled and a positive cell size, snap(snap(p)) = snap(p)
\* and both coordinates of snap(p) are multiples of the cell size.
C31_SnapIdempotent ==
    (last.op = "snap" /\ snap_grid.enabled /\ snap_grid.size > 0) =>
        LET q == Unwrap(last.ret)
        IN /\ snap(snap_grid, q) = q
           /\ q.x % snap_grid.size = 0
           /\ q.y % snap_grid.size = 0

\* C31's case: a point that lies off the grid of 20 in both coordinates, with a
\* negative x half-way between two grid lines, has been snapped.
C31_Witness ==
    /\ last.op = "snap"
    /\ snap_grid = SnapGridNew(20)
    /\ last.args[1] = Position(-30, 23)
    /\ Unwrap(last.ret) = Position(-40, 20)

\* C32: for a camera with non-zero zoom, flow_to_screen(screen_to_flow(p)) = p
\* and screen_to_flow(flow_to_screen(p)) = p.
C32_RoundTrip ==
    viewport.zoom # RatInt(0) =>
        /\ last.op = "screen_to_flow" =>
               flow_to_screen(viewport, Unwrap(last.ret).x, Unwrap(last.ret).y)
                   = Position(last.args[1], last.args[2])
        /\ last.op = "flow_to_screen" =>
               screen_to_flow(viewport, Unwrap(last.ret).x, Unwrap(last.ret).y)
                   = Position(last.args[1], last.args[2])

\* C32's case: a point with fractional coordinates converted by a camera that
\* is panned and zoomed, the result being another point.
C32_Witness ==
    /\ last.op = "screen_to_flow"
    /\ viewport = ViewportNew(Rat(-7, 2), RatInt(12), Rat(1, 3))
    /\ last.args = <<Rat(7, 3), Rat(7, 3)>>
    /\ Unwrap(last.ret) # Position(last.args[1], last.args[2])

(***************************************************************************)
(* SpecLayer: adding nodes.  A run starts from the empty store or from a   *)
(* graph whose highest z_index is 5; the nodes added have no z_index, a    *)
(* z_index below or above the running maximum, or the largest i32.  At     *)
(* i32::MAX the increment in add_node panics in a build with overflow      *)
(* checks and wraps in a build without; a panic ends the run.              *)
(***************************************************************************)
LayerInits ==
    { FlowStateNew,
      with_nodes_and_edges(<<NodeA, with_z_index(NodeB, 5)>>, <<EdgeAB>>) }

InitLayer == \E s \in LayerInits : Constructed(s, PropsDefault, MaxLayerSteps)

LayerNodeInputs ==
    { NodeNew("d", 0, 100), NodeNew("g", 50, 100),
      with_z_index(NodeNew("f", 200, 100), 3),
      with_z_index(NodeNew("h", 200, 200), 9),
      with_z_index(NodeNew("k", 0, 200), -2),
      with_z_index(NodeNew("m", 0, 300), I32_MAX) }

\* what add_node does: the panic or the wrapped increment where it overflows
add_node_outcomes(s, node) ==
    IF add_node_overflows(s, node)
    THEN { [st |-> s, ret |-> Panic], Unit(add_node(s, node)) }
    ELSE { Unit(add_node(s, node)) }

LayerAddNode ==
    /\ ~Panicked
    /\ \E n \in LayerNodeInputs :
           \E res \in add_node_outcomes(State, n) : Apply("add_node", <<n>>, res)

LayerRemoveNode ==
    /\ ~Panicked
    /\ \E id \in {"a", "d"} : Apply("remove_node", <<id>>, Unit(remove_node(State, id)))

NextLayer ==
    \/ LayerAddNode
    \/ LayerRemoveNode

SpecLayer == InitLayer /\ [][NextLayer]_vars

\* C33: add_node of a node with z_index 0 stores it with the running maximum
\* plus one and raises the running maximum to that value; add_node of a node
\* with another z_index stores it as it is and leaves the running maximum at
\* the larger of the two; either way the node comes last and the nodes and
\* edges stored before are unchanged.
C33_AddNode ==
    last.op = "add_node" =>
        LET node == last.args[1]
            m == pre.st.max_z_index
        IN /\ ~Panicked
           /\ Len(nodes) = Len(pre.st.nodes) + 1
           /\ SubSeq(nodes, 1, Len(pre.st.nodes)) = pre.st.nodes
           /\ edges = pre.st.edges
           /\ IF node.z_index = 0
              THEN /\ Last(nodes).z_index > m
                   /\ Last(nodes).z_index - m = 1
                   /\ Last(nodes) = [node EXCEPT !.z_index = max_z_index]
              ELSE /\ Last(nodes) = node
                   /\ max_z_index = (IF node.z_index > m THEN node.z_index ELSE m)

\* C38: in every reachable state max_z_index is at least the z_index of every
\* stored node.
C38_MaxDominates ==
    \A i \in 1..Len(nodes) : nodes[i].z_index <= max_z_index

(***************************************************************************)
(* SpecSelection: every operation that writes the selection, on the graph  *)
(* of SpecSelect (n and e2 are not selectable), every id handed in being   *)
(* the id of a node or edge of that graph.                                 *)
(***************************************************************************)
InitSelection == Constructed(SelectGraph, PropsDefault, MaxSelectionSteps)

SelnSelectNode ==
    \E id \in {"a", "b"}, multi \in BOOLEAN :
        Apply("select_node", <<id, multi>>, Unit(select_node(State, id, multi)))

SelnSelectEdge ==
    \E id \in {"e1", "e2"}, multi \in BOOLEAN :
        Apply("select_edge", <<id, multi>>, Unit(select_edge(State, id, multi)))

SelnSelectNodes ==
    \E ids \in {<<"a", "b">>, <<"n", "c">>}, multi \in BOOLEAN :
        Apply("select_nodes", <<ids, multi>>, Unit(select_nodes(State, ids, multi)))

SelnSelectInRect ==
    \E multi \in BOOLEAN :
        Apply("select_in_rect", <<SelectionRect(0, 0, 250, 80), multi>>,
              Unit(select_in_rect(State, SelectionRect(0, 0, 250, 80), multi)))

SelnSelectAll == Apply("select_all", <<>>, Unit(select_all(State)))

SelnClearSelection == Apply("clear_selection", <<>>, Unit(clear_selection(State)))

SelnRemoveNode == Apply("remove_node", <<"a">>, Unit(remove_node(State, "a")))

SelnRemoveEdge == Apply("remove_edge", <<"e1">>, Unit(remove_edge(State, "e1")))

NextSelection ==
    \/ SelnSelectNode
    \/ SelnSelectEdge
    \/ SelnSelectNodes
    \/ SelnSelectInRect
    \/ SelnSelectAll
    \/ SelnClearSelection
    \/ SelnRemoveNode
    \/ SelnRemoveEdge
    \/ DeleteSelected
    \/ CopySelected
    \/ Paste
    \/ SaveToHistory
    \/ Undo
    \/ Redo

SpecSelection == InitSelection /\ [][NextSelection]_vars

\* C35: in every reachable state a node is flagged selected exactly if its id
\* is in selected_nodes, and an edge exactly if its id is in selected_edges.
C35_FlagsAgree ==
    /\ \A i \in 1..Len(nodes) : nodes[i].selected <=> Contains(selected_nodes, nodes[i].id)
    /\ \A i \in 1..Len(edges) : edges[i].selected <=> Contains(selected_edges, edges[i].id)

\* C36: in every reachable state every id in selected_nodes is the id of a
\* stored node and every id in selected_edges the id of a stored edge.
C36_SelectionStored ==
    /\ \A i \in 1..Len(selected_nodes) : IsSome(get_node(State, selected_nodes[i]))
    /\ \A i \in 1..Len(selected_edges) : IsSome(get_edge(State, selected_edges[i]))

\* everything flagged selected or listed in the selection of s is selectable
OnlySelectable(s) ==
    /\ \A i \in 1..Len(s.nodes) :
           (s.nodes[i].selected \/ Contains(s.selected_nodes, s.nodes[i].id))
               => s.nodes[i].selectable
    /\ \A i \in 1..Len(s.edges) :
           (s.edges[i].selected \/ Contains(s.selected_edges, s.edges[i].id))
               => s.edges[i].selectable

\* C37: starting from an empty selection, the selection operations select only
\* what is selectable: each of them, called in a state where everything
\* selected is selectable, leaves such a state.
C37_OnlySelectable ==
    (/\ last.op \in {"select_node", "select_edge", "select_nodes", "select_in_rect",
                     "select_all"}
     /\ OnlySelectable(pre.st))
    => OnlySelectable(State)

(***************************************************************************)
(* The handlers of the Flow component (components/flow.rs).  A handler     *)
(* takes the FlowState s, the signals u and the props p and returns        *)
(* [st, ui, ret].  Pointer coordinates are whole pixels.  Position's       *)
(* fields are whole numbers in this model: the camera of SpecFlow is never *)
(* zoomed (zoom_on_double_click is off in its props), so every quotient by *)
(* the zoom below is a whole number.                                       *)
(***************************************************************************)
\* the value of a fraction that is a whole number
Whole(r) == r.n \div r.d

WholePosition(pos) == Position(Whole(pos.x), Whole(pos.y))

\* FlowState::cut_selected
cut_selected(s) == delete_selected(copy_selected(s))

\* what a handler returns when it runs to its end
Handled(st, u) == [st |-> st, ui |-> u, ret |-> None]

\* Flow::on_key_down
on_key_down(s, u, p, key, ctrl_or_meta, shift) ==
    IF key \in {"Backspace", "Delete"}
    THEN IF p.elements_deletable
         THEN Handled(delete_selected(save_to_history(s)).st, u)
         ELSE Handled(s, u)
    ELSE IF key = "Escape"
    THEN Handled(clear_selection(cancel_connection(s)), [u EXCEPT !.selection_box = None])
    ELSE IF key = "a" /\ ctrl_or_meta THEN Handled(select_all(s), u)
    ELSE IF key = "c" /\ ctrl_or_meta THEN Handled(copy_selected(s), u)
    ELSE IF key = "x" /\ ctrl_or_meta
    THEN Handled(cut_selected(save_to_history(s)).st, u)
    ELSE IF key = "v" /\ ctrl_or_meta
    THEN Handled(paste(save_to_history(s), Position(20, 20)).st, u)
    ELSE IF key = "z" /\ ctrl_or_meta /\ shift THEN Handled(redo(s).st, u)
    ELSE IF key = "z" /\ ctrl_or_meta THEN Handled(undo(s).st, u)
    ELSE IF key = "y" /\ ctrl_or_meta THEN Handled(redo(s).st, u)
    ELSE IF key \in {"ArrowUp", "ArrowDown", "ArrowLeft", "ArrowRight"}
    THEN LET delta == IF shift THEN 10 ELSE 1
             moved == CASE key = "ArrowUp" -> move_selected_nodes(s, 0, -delta)
                        [] key = "ArrowDown" -> move_selected_nodes(s, 0, delta)
                        [] key = "ArrowLeft" -> move_selected_nodes(s, -delta, 0)
                        [] key = "ArrowRight" -> move_selected_nodes(s, delta, 0)
         IN [st |-> moved.st, ui |-> u, ret |-> moved.ret]
    ELSE IF key = "Shift" THEN Handled(s, [u EXCEPT !.shift_held = TRUE])
    ELSE Handled(s, u)

\* Flow::on_key_up
on_key_up(s, u, key) ==
    IF key = "Shift" THEN Handled(s, [u EXCEPT !.shift_held = FALSE]) ELSE Handled(s, u)

\* Flow::on_mouse_move, the pointer at (x, y)
on_mouse_move(s, u, x, y) ==
    IF IsSome(u.dragging_node)
    THEN LET node_id == Unwrap(u.dragging_node)[1]
             start_pos == Unwrap(u.dragging_node)[2]
             vp_zoom == s.viewport.zoom
             dx == Whole(RatDiv(RatInt(x - start_pos.x), vp_zoom))
             dy == Whole(RatDiv(RatInt(y - start_pos.y), vp_zoom))
             node == get_node(s, node_id)
             dragged == [u EXCEPT !.dragging_node = Some(<<node_id, Position(x, y)>>)]
         IN IF IsSome(node)
            THEN LET pos == Unwrap(node).position
                     moved == update_node_position(s, node_id,
                                                   Position(pos.x + dx, pos.y + dy))
                 IN IF moved.ret = Panic THEN [st |-> moved.st, ui |-> u, ret |-> Panic]
                    ELSE Handled(moved.st, dragged)
            ELSE Handled(s, dragged)
    ELSE IF IsSome(u.selection_box)
    THEN LET start == Unwrap(u.selection_box)[1]
             end_flow == screen_to_flow(s.viewport, RatInt(x), RatInt(y))
         IN Handled(s, [u EXCEPT !.selection_box = Some(<<start, end_flow>>)])
    ELSE IF u.is_panning
    THEN LET panned == IF IsSome(u.last_mouse_pos)
                       THEN pan(s, x - Unwrap(u.last_mouse_pos).x,
                                   y - Unwrap(u.last_mouse_pos).y)
                       ELSE s
         IN Handled(panned, [u EXCEPT !.last_mouse_pos = Some(Position(x, y))])
    ELSE IF IsSome(s.connection)
    THEN Handled(update_connection(s, WholePosition(screen_to_flow(s.viewport,
                                                                    RatInt(x), RatInt(y)))),
                 u)
    ELSE Handled(s, u)

\* on_mouse_up that leaves a draft connection in place
on_mouse_up_keeps_draft(s, u, p) ==
    LET boxed == IF IsSome(u.selection_box)
                 THEN LET start == Unwrap(u.selection_box)[1]
                          end == Unwrap(u.selection_box)[2]
                          min_x == RatMin(start.x, end.x)
                          min_y == RatMin(start.y, end.y)
                          max_x == RatMax(start.x, end.x)
                          max_y == RatMax(start.y, end.y)
                          rect == SelectionRect(Whole(min_x), Whole(min_y),
                                                Whole(RatSub(max_x, min_x)),
                                                Whole(RatSub(max_y, min_y)))
                      IN select_in_rect(s, rect, u.shift_held /\ p.multi_select)
                 ELSE s
        u1 == [u EXCEPT !.selection_box = None, !.dragging_node = None]
        u2 == IF u.is_panning
              THEN [u1 EXCEPT !.is_panning = FALSE, !.last_mouse_pos = None]
              ELSE u1
    IN Handled(boxed, u2)

\* Flow::on_mouse_up, wired to onmouseup and to onmouseleave of the container
on_mouse_up(s, u, p) ==
    LET boxed == IF IsSome(u.selection_box)
                 THEN LET start == Unwrap(u.selection_box)[1]
                          end == Unwrap(u.selection_box)[2]
                          min_x == RatMin(start.x, end.x)
                          min_y == RatMin(start.y, end.y)
                          max_x == RatMax(start.x, end.x)
                          max_y == RatMax(start.y, end.y)
                          rect == SelectionRect(Whole(min_x), Whole(min_y),
                                                Whole(RatSub(max_x, min_x)),
                                                Whole(RatSub(max_y, min_y)))
                      IN select_in_rect(s, rect, u.shift_held /\ p.multi_select)
                 ELSE s
        u1 == [u EXCEPT !.selection_box = None, !.dragging_node = None]
        u2 == IF u.is_panning
              THEN [u1 EXCEPT !.is_panning = FALSE, !.last_mouse_pos = None]
              ELSE u1
    IN Handled(IF IsSome(boxed.connection) THEN cancel_connection(boxed) ELSE boxed, u2)

\* Flow::on_mouse_down, a press on the pane at (x, y); quick tells whether it
\* comes less than 300 ms after the click recorded in last_click_time
on_mouse_down(s, u, p, x, y, quick) ==
    IF p.zoom_on_double_click /\ quick
    THEN Handled(on_mouse_down_double_click(s, p, RatInt(x), RatInt(y)), u)
    ELSE IF p.selection_on_drag \/ (u.shift_held /\ ~p.pan_on_drag)
    THEN LET flow_pos == screen_to_flow(s.viewport, RatInt(x), RatInt(y))
         IN Handled(s, [u EXCEPT !.selection_box = Some(<<flow_pos, flow_pos>>)])
    ELSE LET u1 == IF p.pan_on_drag
                   THEN [u EXCEPT !.is_panning = TRUE,
                                  !.last_mouse_pos = Some(Position(x, y))]
                   ELSE u
         IN Handled(IF ~u.shift_held THEN clear_selection(s) ELSE s, u1)

\* Flow::on_node_drag_start, a press on the node node_id at pos
on_node_drag_start(s, u, p, node_id, pos) ==
    IF p.nodes_draggable
    THEN LET is_draggable == IF IsSome(get_node(s, node_id))
                             THEN Unwrap(get_node(s, node_id)).draggable ELSE FALSE
         IN IF is_draggable
            THEN Handled(save_to_history(s),
                         [u EXCEPT !.dragging_node = Some(<<node_id, pos>>)])
            ELSE Handled(s, u)
    ELSE Handled(s, u)

(***************************************************************************)
(* SpecFlow: the pointer and keyboard handlers of the Flow component on a  *)
(* graph a -> b with a third node f that is not draggable.                 *)
(***************************************************************************)
FlowGraph ==
    with_nodes_and_edges(<<NodeA, NodeB, with_draggable(NodeNew("f", 0, 100), FALSE)>>,
                         <<EdgeAB>>)

PropsFlow == [PropsDefault EXCEPT !.zoom_on_double_click = FALSE]

InitFlow ==
    \E po \in BOOLEAN :
        Constructed(FlowGraph, [PropsFlow EXCEPT !.pan_on_drag = po], MaxFlowSteps)

\* the keys pressed, each with the state of Ctrl/Meta and of Shift
KeyInputs ==
    { <<"Delete", FALSE, FALSE>>, <<"Escape", FALSE, FALSE>>, <<"a", TRUE, FALSE>>,
      <<"c", TRUE, FALSE>>, <<"x", TRUE, FALSE>>, <<"v", TRUE, FALSE>>,
      <<"z", TRUE, FALSE>>, <<"z", TRUE, TRUE>>, <<"y", TRUE, FALSE>>,
      <<"ArrowRight", FALSE, FALSE>>, <<"Shift", FALSE, TRUE>>, <<"q", FALSE, FALSE>> }

\* where the pointer is
PointerInputs == { <<10, 10>>, <<260, 50>> }

FlowKeyDown ==
    \E k \in KeyInputs :
        ApplyUi("on_key_down", k, on_key_down(State, Signals, props, k[1], k[2], k[3]))

FlowKeyUp == ApplyUi("on_key_up", <<"Shift">>, on_key_up(State, Signals, "Shift"))

FlowMouseDown ==
    \E c \in PointerInputs, quick \in BOOLEAN :
        ApplyUi("on_mouse_down", <<c[1], c[2], quick>>,
                on_mouse_down(State, Signals, props, c[1], c[2], quick))

FlowMouseMove ==
    \E c \in PointerInputs :
        ApplyUi("on_mouse_move", c, on_mouse_move(State, Signals, c[1], c[2]))

FlowMouseUp ==
    \E event \in {"mouseup", "mouseleave"} :
        ApplyUi("on_mouse_up", <<event>>, on_mouse_up(State, Signals, props))

FlowNodeDragStart ==
    \E id \in {"a", "f"} :
        ApplyUi("on_node_drag_start", <<id, Position(10, 10)>>,
                on_node_drag_start(State, Signals, props, id, Position(10, 10)))

FlowConnectStart ==
    \E id \in {"a", "b"} :
        Apply("on_connect_start", <<id, "Bottom">>,
              Unit(on_connect_start(State, props, id, "Bottom")))

FlowConnectEnd ==
    \E id \in {"a", "b"} :
        Apply("on_connect_end", <<id, "Top">>, on_connect_end(State, props, id, "Top"))

NextFlow ==
    \/ FlowKeyDown
    \/ FlowKeyUp
    \/ FlowMouseDown
    \/ FlowMouseMove
    \/ FlowMouseUp
    \/ FlowNodeDragStart
    \/ FlowConnectStart
    \/ FlowConnectEnd

SpecFlow == InitFlow /\ [][NextFlow]_vars

\* C34: after the on_mouse_up handler has run (pointer released over the pane
\* or leaving the container) no interaction is in progress: there is no draft
\* connection, no node being dragged, no panning and no open selection box,
\* and a draft connection that was open when it ran has produced no edge.
C34_MouseUpIdle ==
    last.op = "on_mouse_up"
    => /\ connection = None
       /\ dragging_node = None
       /\ ~is_panning
       /\ selection_box = None
       /\ (IsSome(pre.st.connection) => edges = pre.st.edges)

\* on_mouse_up has ended a draft connection and a drag that were both open
C34_Witness ==
    /\ last.op = "on_mouse_up"
    /\ IsSome(pre.st.connection)
    /\ IsSome(pre.ui.dragging_node)
    /\ connection = None
    /\ dragging_node = None

\* the undo and redo stacks are those the call just made found
StacksKept ==
    /\ undo_stack = pre.st.undo_stack
    /\ redo_stack = pre.st.redo_stack

\* C40: the handlers push an undo snapshot, and clear the redo stack, only for
\* actions that change the node or edge collections: a Delete or Cut with
\* nothing selected, a Paste with an empty clipboard, a connection attempt
\* that is rejected, and a press on a draggable node released without moving
\* it all leave the undo and redo stacks unchanged.
C40_SnapshotOnlyOnChange ==
    /\ (/\ last.op = "on_key_down"
        /\ \/ last.args[1] \in {"Backspace", "Delete"}
           \/ last.args[1] = "x" /\ last.args[2]
        /\ pre.st.selected_nodes = <<>>
        /\ pre.st.selected_edges = <<>>)
       => StacksKept
    /\ (/\ last.op = "on_key_down"
        /\ last.args[1] = "v" /\ last.args[2]
        /\ pre.st.clipboard.nodes = <<>>)
       => StacksKept
    /\ (/\ last.op = "on_connect_end"
        /\ IsSome(pre.st.connection)
        /\ last.ret = None)
       => StacksKept
    /\ (/\ last.op = "on_mouse_up"
        /\ pre.last.op = "on_node_drag_start"
        /\ IsSome(pre.ui.dragging_node)
        /\ Unwrap(pre.ui.dragging_node)[1] = pre.last.args[1])
       => /\ undo_stack = pre.prev.undo_stack
          /\ redo_stack = pre.prev.redo_stack

(***************************************************************************)
(* SpecHandles: edges between the handles of two nodes, m with the source  *)
(* handles out1 and out2 and j with the target handles in1 and in2, added  *)
(* by add_edge and drawn handle to handle.                                 *)
(***************************************************************************)
EdgeM1 == EdgeNewWithHandles("m1", "m", "out1", "j", "in1")
EdgeM2 == EdgeNewWithHandles("m2", "m", "out2", "j", "in2")

HandleInits ==
    { with_nodes_and_edges(<<NodeM, NodeJ>>, <<>>),
      with_nodes_and_edges(<<NodeM, NodeJ>>, <<EdgeM1>>) }

InitHandles == \E s \in HandleInits : Constructed(s, PropsDefault, MaxHandleSteps)

HandAddEdge ==
    \E e \in {EdgeM1, EdgeM2, EdgeNew("m3", "m", "j")} :
        Apply("add_edge", <<e>>, Unit(add_edge(State, e)))

HandRemoveEdge ==
    \E id \in {"m1", "em-j"} : Apply("remove_edge", <<id>>, Unit(remove_edge(State, id)))

HandStartFromHandle ==
    \E h \in {"out1", "out2"} :
        Apply("start_connection_from_handle", <<"m", h, "Bottom", Position(75, 40)>>,
              Unit(start_connection_from_handle(State, "m", h, "Bottom", Position(75, 40))))

HandCompleteToHandle ==
    \E target \in {"j", "m"}, h \in {"in1", "in2"} :
        Apply("complete_connection_to_handle", <<target, "Top", Some(h)>>,
              complete_connection_to_handle(State, target, "Top", Some(h)))

HandCancel == Apply("cancel_connection", <<>>, Unit(cancel_connection(State)))

NextHandles ==
    \/ HandAddEdge
    \/ HandRemoveEdge
    \/ HandStartFromHandle
    \/ HandCompleteToHandle
    \/ HandCancel

SpecHandles == InitHandles /\ [][NextHandles]_vars

\* some edge of es joins source and target, and every edge of es that does
\* uses another source handle id or another target handle id
OtherHandles(es, source, target, source_handle_id, target_handle_id) ==
    /\ \E i \in 1..Len(es) : es[i].source = source /\ es[i].target = target
    /\ \A i \in 1..Len(es) :
           (es[i].source = source /\ es[i].target = target)
           => \/ es[i].source_handle_id # source_handle_id
              \/ es[i].target_handle_id # target_handle_id

\* C39: connections over different handles are distinct: when an edge between
\* S and T is stored, add_edge and complete_connection_to_handle accept a
\* further edge between S and T that uses a different source or target handle
\* id, also when the handles lie on the same sides, and both edges are stored.
C39_HandlesDistinct ==
    /\ (/\ last.op = "add_edge"
        /\ OtherHandles(pre.st.edges, last.args[1].source, last.args[1].target,
                        last.args[1].source_handle_id, last.args[1].target_handle_id))
       => edges = Append(pre.st.edges, last.args[1])
    /\ (/\ last.op = "complete_connection_to_handle"
        /\ IsSome(pre.st.connection)
        /\ Unwrap(pre.st.connection).source # last.args[1]
        /\ OtherHandles(pre.st.edges, Unwrap(pre.st.connection).source, last.args[1],
                        Unwrap(pre.st.connection).source_handle_id, last.args[3]))
       => /\ IsSome(last.ret)
          /\ edges = Append(pre.st.edges, Unwrap(last.ret))

====
